---- MODULE Spec2Model ----
(***************************************************************************)
(* tsbridge: the service-lifecycle engine.                                 *)
(*                                                                         *)
(* The model covers the mesh node manager (tailscale.Server), the service  *)
(* registry (service.Registry), configuration validation (config.Config)   *)
(* and the supervisor (app.App) that starts the services and reconciles    *)
(* the running set against every Config received from the provider.        *)
(***************************************************************************)
EXTENDS Integers, Sequences, FiniteSets, TLC

(***************************************************************************)
(* Bounds of the model.                                                    *)
(***************************************************************************)
MaxServices == 2    \* longest service list of a Config
MaxReloads  == 1    \* Configs submitted for reload in one run of Spec
MaxCalls    == 1    \* of these, direct reloadConfig calls
MaxNodes    == 4    \* mesh nodes on the heap at one time
MaxFaults   == 1    \* failures the environment injects in one run

(***************************************************************************)
(* Values.                                                                 *)
(***************************************************************************)
Names      == {"api", "web"}
NameOrd    == [n \in Names |-> IF n = "api" THEN 1 ELSE 2]
Backends   == {"b8080"}
HeaderMaps == {"nil", "empty", "x"}
Providers  == {"file", "docker"}
Procs      == {"watcher", "caller"}

\* config.Service, restricted to the fields the lifecycle engine reads.
MkService(n, b, h) ==
    [Name |-> n, BackendAddr |-> b, UpstreamHeaders |-> h,
     TLSMode |-> "auto", Tags |-> "nil"]

ServiceVals == {MkService(n, b, h) : n \in Names, b \in Backends, h \in HeaderMaps}

\* config.Config with a resolved auth key and defaulted global section.
MkConfig(svcs) ==
    [Tailscale |-> [AuthKey |-> "k", OAuthClientID |-> "", OAuthClientSecret |-> ""],
     Global    |-> [ShutdownTimeout |-> [Duration |-> 1, IsSet |-> TRUE]],
     Services  |-> svcs]

SeqsUpTo(S, n) == UNION {[1..k -> S] : k \in 0..n}

\* Service lists a provider can produce, written in name order; a list may
\* carry the same service twice.
ServiceLists ==
    {s \in SeqsUpTo(ServiceVals, MaxServices) :
        \A i \in 1..(Len(s) - 1) :
            \/ NameOrd[s[i].Name] < NameOrd[s[i + 1].Name]
            \/ s[i] = s[i + 1]}

ConfigUniverse == {MkConfig(s) : s \in ServiceLists}

Range(s) == {s[i] : i \in 1..Len(s)}

ConfigNames(c) == {c.Services[i].Name : i \in 1..Len(c.Services)}

(***************************************************************************)
(* config.Config.Validate and its helpers.                                 *)
(***************************************************************************)
\* An auth-method selection that lets an auth key and OAuth credentials
\* stand together.
validateAuthMethodSelection_Any(ts) == TRUE

validateAuthMethodSelection(ts) ==
    ~(ts.AuthKey # "" /\ (ts.OAuthClientID # "" \/ ts.OAuthClientSecret # ""))

validateOAuthSources(ts) ==
    ts.OAuthClientID # "" /\ ts.OAuthClientSecret # ""

validateOAuth(c) ==
    /\ validateAuthMethodSelection(c.Tailscale)
    /\ (c.Tailscale.AuthKey # "" \/ validateOAuthSources(c.Tailscale))

validateGlobal(c) == c.Global.ShutdownTimeout.Duration > 0

\* The backend addresses of the model, by their text.  Backends are the
\* addresses the running services use; the others are what a Config can
\* spell besides.
BackendAddrs ==
    Backends \cup {"localhost:0", "localhost:1", "localhost:65535", "localhost:65536",
                   "localhost", "unix:///s", "unix://"}

\* strings.HasPrefix(addr, "unix://").
IsUnix(addr) == addr \in {"unix:///s", "unix://"}

\* len(addr), for the addresses with the unix:// prefix.
UnixLen(addr) == IF addr = "unix://" THEN 7 ELSE 10

NoPort == -1

\* The number the text after the last colon of a TCP address spells, NoPort
\* when the address has no colon.
PortOf(addr) ==
    CASE addr = "b8080"           -> 8080
      [] addr = "localhost:0"     -> 0
      [] addr = "localhost:1"     -> 1
      [] addr = "localhost:65535" -> 65535
      [] addr = "localhost:65536" -> 65536
      [] OTHER                    -> NoPort

\* net.ResolveTCPAddr("tcp", addr) succeeds: the address splits into host and
\* port and the port is a number of 0..65535.
ResolveTCPAddr(addr) == PortOf(addr) # NoPort /\ PortOf(addr) \in 0..65535

validateService(c, svc) ==
    /\ svc.BackendAddr # ""
    /\ IF IsUnix(svc.BackendAddr)
          THEN UnixLen(svc.BackendAddr) > 7
          ELSE ResolveTCPAddr(svc.BackendAddr)
    /\ (svc.TLSMode # "" => svc.TLSMode \in {"auto", "off"})
    /\ ((c.Tailscale.OAuthClientID # "" \/ c.Tailscale.OAuthClientSecret # "")
          => svc.Tags \notin {"nil", "empty"})

\* The duplicate-name scan of Validate: seen[] rejects a repeated name.
NoDuplicateNames(svcs) ==
    \A i, j \in 1..Len(svcs) : svcs[i].Name = svcs[j].Name => i = j

\* A Validate that asks every provider for at least one service.
Validate_ZeroServicesInvalid(c, provider) ==
    /\ validateOAuth(c)
    /\ validateGlobal(c)
    /\ Len(c.Services) # 0
    /\ NoDuplicateNames(c.Services)
    /\ \A i \in 1..Len(c.Services) :
          /\ c.Services[i].Name # ""
          /\ validateService(c, c.Services[i])

\* A Validate that forgets the seen[] map.
Validate_NoDupCheck(c, provider) ==
    /\ validateOAuth(c)
    /\ validateGlobal(c)
    /\ ~(Len(c.Services) = 0 /\ provider # "docker")
    /\ \A i \in 1..Len(c.Services) :
          /\ c.Services[i].Name # ""
          /\ validateService(c, c.Services[i])

Validate(c, provider) ==
    /\ validateOAuth(c)
    /\ validateGlobal(c)
    /\ ~(Len(c.Services) = 0 /\ provider # "docker")
    /\ NoDuplicateNames(c.Services)
    /\ \A i \in 1..Len(c.Services) :
          /\ c.Services[i].Name # ""
          /\ validateService(c, c.Services[i])

(***************************************************************************)
(* config.ServiceConfigEqual: field-wise equality in which a nil and an    *)
(* empty map (or slice) are the same value.                                *)
(***************************************************************************)
NilIsEmpty(m) == IF m = "nil" THEN "empty" ELSE m

ServiceConfigEqual(a, b) ==
    /\ a.Name = b.Name
    /\ a.BackendAddr = b.BackendAddr
    /\ a.TLSMode = b.TLSMode
    /\ NilIsEmpty(a.Tags) = NilIsEmpty(b.Tags)
    /\ NilIsEmpty(a.UpstreamHeaders) = NilIsEmpty(b.UpstreamHeaders)

(***************************************************************************)
(* The world the registry and the mesh node manager act on:                *)
(*   services        Registry.services, a list of running services         *)
(*   serviceServers  Server.serviceServers, name -> node (0: no entry)     *)
(*   nodes           the tsnet nodes on the heap, by node id; a slot is    *)
(*                   "free" until a node is instantiated in it             *)
(*   stateDirs       names whose <state-root>/<name> holds persisted state *)
(*   priming         names with a live certificate priming goroutine       *)
(***************************************************************************)
NoNode == 0

NodeIds == 1..MaxNodes

FreeNode == [name |-> "", state |-> "free", listener |-> "none", authKey |-> FALSE]

HasFree(nds, k) == Cardinality({i \in NodeIds : nds[i].state = "free"}) >= k

\* The slot the next node is instantiated in.
AllocId(nds) ==
    CHOOSE i \in NodeIds :
        /\ nds[i].state = "free"
        /\ \A j \in 1..(i - 1) : nds[j].state # "free"

\* A node is garbage once it is not running (never started, or closed) and
\* neither the manager nor a running service refers to it.
Garbage(w, i) ==
    /\ w.nodes[i].state \in {"new", "closed"}
    /\ \A n \in Names : w.serviceServers[n] # i
    /\ \A k \in 1..Len(w.services) : w.services[k].listener # i

Collect(w) ==
    [w EXCEPT !.nodes = [i \in NodeIds |-> IF Garbage(w, i) THEN FreeNode ELSE w.nodes[i]]]

MkWorld(svcs, srv, nds, dirs, prim) ==
    [services |-> svcs, serviceServers |-> srv, nodes |-> nds, stateDirs |-> dirs,
     priming |-> prim]

hasExistingState(dirs, name) == name \in dirs

\* What the mesh library answers to one Listen call.
ListenOutcomes == {"ok", "authfail", "startfail", "listenfail"}

(***************************************************************************)
(* tailscale.Server.Listen.  The node is stored in serviceServers before   *)
(* it is started, whatever entry the name had; an error after that point   *)
(* returns without undoing the store or closing the node.  A TLS listener  *)
(* in mode "auto" leaves a goroutine behind that primes the certificate.   *)
\* A Listen that hands the auth key to every node it instantiates.
Listen_AlwaysAuthKey(w, svc, out) ==
    LET id    == AllocId(w.nodes)
        fresh == ~hasExistingState(w.stateDirs, svc.Name)
        node  == [name |-> svc.Name, state |-> "new", listener |-> "none",
                  authKey |-> TRUE]
        srv1  == [w.serviceServers EXCEPT ![svc.Name] = id]
    IN  IF fresh /\ out = "authfail"
        THEN [w |-> w, listener |-> NoNode, err |-> "config"]
        ELSE IF out = "startfail"
        THEN [w |-> [w EXCEPT !.serviceServers = srv1,
                               !.nodes[id] = node],
              listener |-> NoNode, err |-> "resource"]
        ELSE IF out = "listenfail"
        THEN [w |-> [w EXCEPT !.serviceServers = srv1,
                               !.nodes[id] = [node EXCEPT !.state = "started"],
                               !.stateDirs = w.stateDirs \cup {svc.Name}],
              listener |-> NoNode, err |-> "listen"]
        ELSE [w |-> [w EXCEPT !.serviceServers = srv1,
                               !.nodes[id] = [node EXCEPT !.state = "started",
                                                          !.listener = "open"],
                               !.stateDirs = w.stateDirs \cup {svc.Name},
                               !.priming = IF svc.TLSMode = "auto"
                                           THEN @ \cup {svc.Name} ELSE @],
              listener |-> id, err |-> "nil"]

(***************************************************************************)
\* The listeners Listen can return: what it asked the node for, and where.
FunnelListener == [kind |-> "funnel", port |-> 443]
TLSListener    == [kind |-> "tls", port |-> 443]
PlainListener  == [kind |-> "plain", port |-> 80]
NoListener     == [kind |-> "none", port |-> 0]

\* A choice of the listener that looks at tlsMode only.
SelectListener_IgnoresFunnel(tlsMode, funnelEnabled) ==
    IF tlsMode = "auto" THEN TLSListener
    ELSE IF tlsMode = "off" THEN PlainListener
    ELSE NoListener

\* The listener the statements after Start ask for; NoListener when the
\* switch on tlsMode reaches its default branch.
SelectListener(tlsMode, funnelEnabled) ==
    IF funnelEnabled THEN FunnelListener
    ELSE IF tlsMode = "auto" THEN TLSListener
    ELSE IF tlsMode = "off" THEN PlainListener
    ELSE NoListener

\* Server.Listen(svc, tlsMode, funnelEnabled), which the registry calls as
\* ListenWithService.  sel is the listener asked for, primes the number
\* of priming goroutines the call launched.
ListenWithService(w, svc, tlsMode, funnelEnabled, out) ==
    LET id    == AllocId(w.nodes)
        fresh == ~hasExistingState(w.stateDirs, svc.Name)
        node  == [name |-> svc.Name, state |-> "new", listener |-> "none",
                  authKey |-> fresh]
        srv1  == [w.serviceServers EXCEPT ![svc.Name] = id]
        sel   == SelectListener(tlsMode, funnelEnabled)
        held  == [w EXCEPT !.serviceServers = srv1,
                           !.nodes[id] = [node EXCEPT !.state = "started"],
                           !.stateDirs = w.stateDirs \cup {svc.Name}]
        none  == [listener |-> NoNode, sel |-> NoListener, primes |-> 0]
    IN  IF fresh /\ out = "authfail"
        THEN [w |-> w, err |-> "config"] @@ none
        ELSE IF out = "startfail"
        THEN [w |-> [w EXCEPT !.serviceServers = srv1, !.nodes[id] = node],
              err |-> "resource"] @@ none
        ELSE IF sel = NoListener
        THEN [w |-> held, err |-> "validation"] @@ none
        ELSE IF out = "listenfail"
        THEN [w |-> held, err |-> "listen"] @@ none
        ELSE [w |-> [held EXCEPT !.nodes[id].listener = "open",
                                  !.priming = IF sel = TLSListener
                                              THEN @ \cup {svc.Name} ELSE @],
              err |-> "nil", listener |-> id, sel |-> sel,
              primes |-> IF sel = TLSListener THEN 1 ELSE 0]

\* The call of startService: the service's own tls_mode, and no funnel,
\* as the services of the model leave funnel_enabled unset.
Listen(w, svc, out) ==
    LET r == ListenWithService(w, svc, svc.TLSMode, FALSE, out)
    IN  [w |-> r.w, listener |-> r.listener, err |-> r.err]

\* tailscale.Server.GetServiceServer
GetServiceServer(w, name) == w.serviceServers[name]

\* A CloseService that deletes the entry whatever Close answers.
CloseService_DeletesOnError(w, name, closeOK) ==
    LET id == w.serviceServers[name]
    IN  IF id = NoNode
        THEN [w |-> w, err |-> "nil"]
        ELSE IF ~closeOK
        THEN [w |-> [w EXCEPT !.serviceServers[name] = NoNode], err |-> "resource"]
        ELSE [w |-> [w EXCEPT !.nodes[id].state = "closed",
                               !.nodes[id].listener =
                                   IF @ = "open" THEN "closed" ELSE @,
                               !.serviceServers[name] = NoNode],
              err |-> "nil"]

(***************************************************************************)
(* tailscale.Server.CloseService: closes the recorded node and deletes the *)
(* entry; a name without entry is a no-op; a failing Close leaves the      *)
(* entry (and the node) as they were.                                      *)
(***************************************************************************)
CloseService(w, name, closeOK) ==
    LET id == w.serviceServers[name]
    IN  IF id = NoNode
        THEN [w |-> w, err |-> "nil"]
        ELSE IF ~closeOK
        THEN [w |-> w, err |-> "resource"]
        ELSE [w |-> [w EXCEPT !.nodes[id].state = "closed",
                               !.nodes[id].listener =
                                   IF @ = "open" THEN "closed" ELSE @,
                               !.serviceServers[name] = NoNode],
              err |-> "nil"]

(***************************************************************************)
(* service.Registry.startService.  out is the answer of the mesh library   *)
(* to Listen, or "handlerfail" when Listen succeeds and CreateHandler      *)
(* returns an error.                                                       *)
(***************************************************************************)
StartOutcomes == ListenOutcomes \cup {"handlerfail"}

startService(w, svc, out) ==
    LET l == Listen(w, svc, IF out = "handlerfail" THEN "ok" ELSE out)
    IN  IF l.err # "nil"
        THEN [w |-> l.w, svc |-> <<>>, err |-> "resource"]
        ELSE IF out = "handlerfail"
        THEN [w |-> [l.w EXCEPT !.nodes[l.listener].listener = "closed"],
              svc |-> <<>>, err |-> "handler"]
        ELSE [w |-> l.w,
              svc |-> <<[Config |-> svc, listener |-> l.listener, server |-> "serving"]>>,
              err |-> "nil"]

\* A loop that returns at the first failure.
RECURSIVE StartLoop_Break(_, _, _, _, _)
StartLoop_Break(w, svcs, outs, i, acc) ==
    IF i > Len(svcs) THEN [w |-> w, failed |-> acc.failed, ok |-> acc.ok]
    ELSE LET r == startService(w, svcs[i], outs[i])
         IN  IF r.err # "nil"
             THEN [w |-> r.w, failed |-> acc.failed \cup {svcs[i].Name}, ok |-> acc.ok]
             ELSE StartLoop_Break([r.w EXCEPT !.services = w.services \o r.svc],
                                  svcs, outs, i + 1, [acc EXCEPT !.ok = @ + 1])

(***************************************************************************)
(* service.Registry.StartServices: one startService per configured         *)
(* service, in order; a failure is recorded and the loop continues.        *)
(***************************************************************************)
RECURSIVE StartLoop(_, _, _, _, _)
StartLoop(w, svcs, outs, i, acc) ==
    IF i > Len(svcs) THEN [w |-> w, failed |-> acc.failed, ok |-> acc.ok]
    ELSE LET r == startService(w, svcs[i], outs[i])
         IN  IF r.err # "nil"
             THEN StartLoop(r.w, svcs, outs, i + 1,
                            [acc EXCEPT !.failed = @ \cup {svcs[i].Name}])
             ELSE StartLoop([r.w EXCEPT !.services = w.services \o r.svc],
                            svcs, outs, i + 1, [acc EXCEPT !.ok = @ + 1])

\* tserrors.ServiceStartupError and the other results of StartServices.
NoStartupError == [kind |-> "nil", Total |-> 0, Successful |-> 0, Failed |-> 0, Failures |-> {}]

\* A StartServices that hands the two counts to the error in the wrong order.
StartServices_SwapsCounts(w, svcs, outs) ==
    LET r == StartLoop(w, svcs, outs, 1, [failed |-> {}, ok |-> 0])
        totalServices == Len(svcs)
        failedCount   == Cardinality(r.failed)
    IN  [w   |-> r.w,
         err |-> IF totalServices = 0
                 THEN [NoStartupError EXCEPT !.kind = "internal"]
                 ELSE IF failedCount > 0
                 THEN [kind |-> "startup", Total |-> totalServices,
                       Successful |-> failedCount, Failed |-> r.ok,
                       Failures |-> r.failed]
                 ELSE NoStartupError]

StartServices(w, svcs, outs) ==
    LET r == StartLoop(w, svcs, outs, 1, [failed |-> {}, ok |-> 0])
        totalServices == Len(svcs)
        failedCount   == Cardinality(r.failed)
    IN  [w   |-> r.w,
         err |-> IF totalServices = 0
                 THEN [NoStartupError EXCEPT !.kind = "internal"]
                 ELSE IF failedCount > 0
                 THEN [kind |-> "startup", Total |-> totalServices,
                       Successful |-> r.ok, Failed |-> failedCount,
                       Failures |-> r.failed]
                 ELSE NoStartupError]

\* ServiceStartupError.AllFailed
AllFailed(e) == e.kind = "startup" /\ e.Failed = e.Total /\ e.Total > 0

(***************************************************************************)
(* Registry.AddService, RemoveService and UpdateService.                   *)
(***************************************************************************)
RemoveOutcomes == {"ok", "shutdownfail", "closefail"}

\* Position of the running service called name; 0 when there is none.
IndexOf(svcs, name) ==
    IF \E i \in 1..Len(svcs) : svcs[i].Config.Name = name
    THEN CHOOSE i \in 1..Len(svcs) :
            /\ svcs[i].Config.Name = name
            /\ \A j \in 1..(i - 1) : svcs[j].Config.Name # name
    ELSE 0

RemoveAt(s, i) == SubSeq(s, 1, i - 1) \o SubSeq(s, i + 1, Len(s))

\* An AddService that starts the service and forgets to register it.
AddService_NoAppend(w, svc, out) ==
    LET r == startService(w, svc, out)
    IN  [w |-> r.w, err |-> r.err]

\* AddService: startService, then the service joins the registry.
AddService(w, svc, out) ==
    LET r == startService(w, svc, out)
    IN  IF r.err # "nil"
        THEN [w |-> r.w, err |-> r.err]
        ELSE [w |-> [r.w EXCEPT !.services = w.services \o r.svc], err |-> "nil"]

\* http.Server.Shutdown of the service at position idx: the server closes
\* its listener and its serve goroutine returns; the call succeeds when the
\* handlers in flight finish before the deadline ("stopped"), and fails with
\* handlers still in flight otherwise ("draining").
httpShutdown(w, idx, ok) ==
    [w EXCEPT !.services[idx].server = IF ok THEN "stopped" ELSE "draining",
              !.nodes[w.services[idx].listener].listener =
                  IF @ = "open" THEN "closed" ELSE @]

\* RemoveService: look the service up, shut its HTTP server down, close
\* the mesh node of the name, delete the entry.
RemoveService(w, name, out) ==
    LET idx == IndexOf(w.services, name)
    IN  IF idx = 0
        THEN [w |-> w, err |-> "notfound"]
        ELSE IF out = "shutdownfail"
        THEN [w |-> httpShutdown(w, idx, FALSE), err |-> "shutdown"]
        ELSE LET w1 == httpShutdown(w, idx, TRUE)
                 c  == CloseService(w1, name, out # "closefail")
             IN  IF c.err # "nil"
                 THEN [w |-> c.w, err |-> c.err]
                 ELSE [w |-> [c.w EXCEPT !.services = RemoveAt(c.w.services, idx)],
                       err |-> "nil"]

(***************************************************************************)
(* tserrors.ReloadError                                                    *)
(***************************************************************************)
NewReloadError ==
    [Successful |-> 0, Failed |-> 0,
     AddErrors |-> {}, RemoveErrors |-> {}, UpdateErrors |-> {}]

RecordSuccess(e) == [e EXCEPT !.Successful = @ + 1]

RecordAddError(e, name) ==
    [e EXCEPT !.Failed = @ + 1, !.AddErrors = @ \cup {name}]

RecordRemoveError(e, name) ==
    [e EXCEPT !.Failed = @ + 1, !.RemoveErrors = @ \cup {name}]

\* A RecordUpdateError that keeps the error without counting it.
RecordUpdateError_NoCount(e, name) ==
    [e EXCEPT !.UpdateErrors = @ \cup {name}]

RecordUpdateError(e, name) ==
    [e EXCEPT !.Failed = @ + 1, !.UpdateErrors = @ \cup {name}]

\* ReloadError.HasErrors: one of the three maps holds an error.
HasErrors(e) == e.AddErrors # {} \/ e.RemoveErrors # {} \/ e.UpdateErrors # {}

\* ReloadError.AllFailed: actions were recorded and every one of them failed.
ReloadAllFailed(e) ==
    LET total == e.Successful + e.Failed
    IN  total > 0 /\ e.Failed = total

(***************************************************************************)
(* The three-way diff of a reload and the order its actions are applied.   *)
(***************************************************************************)
InConfig(c, name) == \E i \in 1..Len(c.Services) : c.Services[i].Name = name

\* The service called name in c (the first, if c is malformed).
Lookup(c, name) ==
    c.Services[CHOOSE i \in 1..Len(c.Services) :
                  /\ c.Services[i].Name = name
                  /\ \A j \in 1..(i - 1) : c.Services[j].Name # name]

findServicesToRemove(old, new) ==
    SelectSeq(old.Services, LAMBDA s : ~InConfig(new, s.Name))

\* A diff that updates every service both Configs name.
findServicesToUpdate_All(old, new) ==
    SelectSeq(new.Services, LAMBDA s : InConfig(old, s.Name))

findServicesToUpdate(old, new) ==
    SelectSeq(new.Services,
              LAMBDA s : InConfig(old, s.Name)
                         /\ ~ServiceConfigEqual(Lookup(old, s.Name), s))

findServicesToAdd(old, new) ==
    SelectSeq(new.Services, LAMBDA s : ~InConfig(old, s.Name))

Steps(kind, svcs) == [i \in 1..Len(svcs) |-> [kind |-> kind, svc |-> svcs[i]]]

\* A reconcile that starts the new services before it stops the old ones.
ReconcileSteps_AddFirst(old, new) ==
    Steps("add", findServicesToAdd(old, new))
      \o Steps("update", findServicesToUpdate(old, new))
      \o Steps("remove", findServicesToRemove(old, new))

\* Removes, then Updates, then Adds.
ReconcileSteps(old, new) ==
    Steps("remove", findServicesToRemove(old, new))
      \o Steps("update", findServicesToUpdate(old, new))
      \o Steps("add", findServicesToAdd(old, new))

(***************************************************************************)
(* State.                                                                  *)
(***************************************************************************)
VARIABLES
    provider,        \* name of the configuration provider
    scope,           \* service names the deployment's Configs mention
    cfg,             \* App.cfg, the applied Config
    appState,        \* "new", "running" or "fatal"
    startupErr,      \* what StartServices returned to Start
    startOuts,       \* what the mesh library answered during StartServices
    appMu,           \* holder of the supervisor mutex, "none" when free
    stream,          \* the provider's channel of Configs
    emitted,         \* Configs the provider has sent
    taken,           \* Configs the watch loop has received
    calls,           \* direct reloadConfig calls made
    rl,              \* per goroutine: the reload it is executing
    result,          \* per goroutine: what its last reloadConfig returned
    log,             \* registry operations of the reload in progress
    quota,           \* Configs that may still be submitted for reload
    faultsLeft,      \* failures the environment may still inject
    services,        \* Registry.services
    serviceServers,  \* Server.serviceServers
    nodes,           \* the mesh nodes on the heap
    stateDirs,       \* state directories that hold persisted state
    priming,         \* names whose certificate is being primed
    sup,             \* the supervisor's goroutines, its Start and Shutdown calls
    adding,          \* one startService call, statement by statement
    req,             \* one request passing the whois middleware
    load,            \* one Config passing the load pipeline
    cli,             \* one run of the command line program
    lsn,             \* the last call made to the mesh node manager
    mreq,            \* one request passing the metrics middleware
    agg              \* one ReloadError and the calls made on it

appVars   == <<provider, scope, cfg, appState, startupErr, startOuts, appMu, stream,
               emitted, taken, calls, rl, result, log, quota, faultsLeft>>
worldVars == <<services, serviceServers, nodes, stateDirs, priming>>
auxVars   == <<sup, adding, req, load, cli, lsn, mreq, agg>>
vars      == <<provider, scope, cfg, appState, startupErr, startOuts, appMu, stream,
               emitted, taken, calls, rl, result, log, quota, faultsLeft,
               services, serviceServers, nodes, stateDirs, priming,
               sup, adding, req, load, cli, lsn, mreq, agg>>

MaxQueue == 2    \* capacity of the provider's channel

World == MkWorld(services, serviceServers, nodes, stateDirs, priming)

SetWorld(w) ==
    /\ services'       = w.services
    /\ serviceServers' = w.serviceServers
    /\ nodes'          = Collect(w).nodes
    /\ stateDirs'      = w.stateDirs
    /\ priming'        = w.priming

\* The registry runs exactly the services of Config c, one per name, and
\* each of them is serving.
RegistryMatches(svcs, c) ==
    /\ Len(svcs) = Len(c.Services)
    /\ \A n \in Names :
          Cardinality({i \in 1..Len(svcs) : svcs[i].Config.Name = n}) <= 1
    /\ \A i \in 1..Len(c.Services) :
          \E k \in 1..Len(svcs) :
              /\ ServiceConfigEqual(svcs[k].Config, c.Services[i])
              /\ svcs[k].server = "serving"

\* Before Start: no goroutine of the supervisor runs, nothing is shut down.
SupNew ==
    [pc |-> "up", watcher |-> "none", metrics |-> "none", log |-> <<>>,
     errs |-> {}, ret |-> {}, starts |-> 0, shutdowns |-> 0,
     ctx |-> "live", closed |-> FALSE]

\* No startService call is being followed statement by statement.
NoAdd == [pc |-> "none"]

\* No request is passing the whois middleware.
NoReq == [pc |-> "none"]

\* No Config is passing the load pipeline.
NoLoad == [pc |-> "none"]

\* main has not been entered.
NoCli == [pc |-> "none"]

\* No call has been made to the node manager.
NoCall == [pc |-> "none"]

\* No request has reached the metrics middleware.
NoMreq == [pc |-> "none"]

\* No ReloadError has been made.
NoAgg == [pc |-> "none"]

\* matched remembers whether the registry matched the applied Config when
\* the reload took the mutex.
IdleReload ==
    [pc |-> "idle", newCfg |-> MkConfig(<<>>), steps |-> <<>>, k |-> 0,
     reloadErr |-> NewReloadError, matched |-> FALSE]

\* The Configs the deployment can produce.
Offered == {c \in ConfigUniverse : ConfigNames(c) \subseteq scope}

\* Nothing runs yet and no state directory holds state; the provider's Load
\* has produced a validated Config.
InitApp ==
    /\ provider \in Providers
    /\ appState = "new"
    /\ startupErr = NoStartupError
    /\ startOuts = <<>>
    /\ appMu = "none"
    /\ stream = <<>>
    /\ emitted = 0
    /\ taken = 0
    /\ calls = 0
    /\ rl = [p \in Procs |-> IdleReload]
    /\ result = [p \in Procs |-> "nil"]
    /\ log = <<>>
    /\ services = <<>>
    /\ serviceServers = [n \in Names |-> NoNode]
    /\ nodes = [i \in NodeIds |-> FreeNode]
    /\ stateDirs = {}
    /\ priming = {}
    /\ sup = SupNew
    /\ adding = NoAdd
    /\ req = NoReq
    /\ load = NoLoad
    /\ cli = NoCli
    /\ lsn = NoCall
    /\ mreq = NoMreq
    /\ agg = NoAgg
    /\ cfg \in {c \in Offered : Validate(c, provider)}

Init ==
    /\ scope = Names
    /\ InitApp
    /\ quota = MaxReloads
    /\ faultsLeft = MaxFaults

(***************************************************************************)
(* App.Start: the metrics server is started, then StartServices runs over  *)
(* the applied Config; fatal when every service failed, otherwise the      *)
(* supervisor runs and its watcher goroutine watches the stream.           *)
(***************************************************************************)
StartVerdict(err) == IF AllFailed(err) THEN "fatal" ELSE "running"

Start ==
    /\ appState = "new"
    /\ HasFree(nodes, Len(cfg.Services))
    /\ \E outs \in [1..Len(cfg.Services) -> StartOutcomes] :
          /\ \A i \in 1..Len(outs) :
                outs[i] = "authfail"
                    => ~hasExistingState(stateDirs, cfg.Services[i].Name)
          /\ Cardinality({i \in 1..Len(outs) : outs[i] # "ok"}) <= faultsLeft
          /\ LET r == StartServices(World, cfg.Services, outs)
             IN  /\ SetWorld(r.w)
                 /\ startupErr' = r.err
                 /\ appState' = StartVerdict(r.err)
          /\ startOuts' = outs
          /\ faultsLeft' = faultsLeft - Cardinality({i \in 1..Len(outs) : outs[i] # "ok"})
    /\ sup' = [sup EXCEPT !.metrics = "serving",
                          !.watcher = IF appState' = "running" THEN "live" ELSE @,
                          !.starts = 1]
    /\ UNCHANGED <<provider, scope, cfg, appMu, stream, emitted, taken, calls, rl,
                   result, log, quota, adding, req,
                   load, cli, lsn, mreq, agg>>

(***************************************************************************)
(* The provider sends a whole Config on its channel.                       *)
(***************************************************************************)
Emit ==
    /\ appState = "running"
    /\ provider = "docker"
    /\ quota > 0
    /\ Len(stream) < MaxQueue
    /\ \E c \in Offered :
          stream' = Append(stream, [seq |-> emitted + 1, cfg |-> c])
    /\ emitted' = emitted + 1
    /\ quota' = quota - 1
    /\ UNCHANGED <<provider, scope, cfg, appState, startupErr, startOuts, appMu, taken,
                   calls, rl, result, log, faultsLeft>>
    /\ UNCHANGED worldVars
    /\ UNCHANGED auxVars

(***************************************************************************)
(* reloadConfig, first step: validate the new Config.  An invalid Config   *)
(* ends the reload with an error before anything is touched.               *)
(***************************************************************************)
Submit(p, c) ==
    IF Validate(c, provider)
    THEN /\ rl' = [rl EXCEPT ![p] = [IdleReload EXCEPT !.pc = "wait", !.newCfg = c]]
         /\ result' = result
    ELSE /\ rl' = rl
         /\ result' = [result EXCEPT ![p] = "invalid"]

\* A channel receive: the oldest Config, and the channel without it.
ReceiveFrom(q) == [item |-> Head(q), rest |-> Tail(q)]

\* watchConfigChanges: receive the next Config and reload it.
Receive ==
    /\ appState = "running"
    /\ rl["watcher"].pc = "idle"
    /\ stream # <<>>
    /\ Submit("watcher", ReceiveFrom(stream).item.cfg)
    /\ stream' = ReceiveFrom(stream).rest
    /\ taken' = ReceiveFrom(stream).item.seq
    /\ UNCHANGED <<provider, scope, cfg, appState, startupErr, startOuts, appMu,
                   emitted, calls, log, quota, faultsLeft>>
    /\ UNCHANGED worldVars
    /\ UNCHANGED auxVars

\* reloadConfig called directly, concurrently with the watch loop.
Call ==
    /\ appState = "running"
    /\ rl["caller"].pc = "idle"
    /\ calls < MaxCalls
    /\ quota > 0
    /\ \E c \in Offered : Submit("caller", c)
    /\ calls' = calls + 1
    /\ quota' = quota - 1
    /\ UNCHANGED <<provider, scope, cfg, appState, startupErr, startOuts, appMu, stream,
                   emitted, taken, log, faultsLeft>>
    /\ UNCHANGED worldVars
    /\ UNCHANGED auxVars

(***************************************************************************)
(* reloadConfig, second step: take the supervisor mutex and compute the    *)
(* diff against the applied Config.                                        *)
(***************************************************************************)
\* A reload that does not wait for the mutex.
CanAcquire_NoLock(p) == TRUE

CanAcquire(p) == appMu = "none"

PcAfter(r) == IF r.k < Len(r.steps) THEN "apply" ELSE "finish"

Acquire(p) ==
    /\ rl[p].pc = "wait"
    /\ CanAcquire(p)
    /\ appMu' = p
    /\ LET st == ReconcileSteps(cfg, rl[p].newCfg)
       IN  rl' = [rl EXCEPT ![p].steps = st,
                            ![p].matched = RegistryMatches(services, cfg),
                            ![p].k = IF st = <<>> THEN 0 ELSE 1,
                            ![p].pc = IF st = <<>> THEN "finish" ELSE "apply"]
    /\ log' = <<>>
    /\ UNCHANGED <<provider, scope, cfg, appState, startupErr, startOuts, stream,
                   emitted, taken, calls, result, quota, faultsLeft>>
    /\ UNCHANGED worldVars
    /\ UNCHANGED auxVars

CurStep(p) == rl[p].steps[rl[p].k]

\* The reload moves on to its next action, or to its end.
Advance(r, e) ==
    [r EXCEPT !.reloadErr = e,
              !.k  = IF r.k < Len(r.steps) THEN r.k + 1 ELSE r.k,
              !.pc = PcAfter(r)]

LogEntry(kind, name, err) == [kind |-> kind, name |-> name, err |-> err]

RemoveApplies(name, out) ==
    /\ (out # "ok" => IndexOf(services, name) # 0)
    /\ (out = "closefail" => serviceServers[name] # NoNode)
    /\ (out # "ok" => faultsLeft > 0)

AddApplies(name, out) ==
    /\ HasFree(nodes, 1)
    /\ (out = "authfail" => ~hasExistingState(stateDirs, name))
    /\ (out # "ok" => faultsLeft > 0)

Charge(out) == faultsLeft' = IF out = "ok" THEN faultsLeft ELSE faultsLeft - 1

\* Remove: a service of the applied Config that the new Config drops.
ApplyRemove(p) ==
    /\ rl[p].pc = "apply"
    /\ CurStep(p).kind = "remove"
    /\ \E out \in RemoveOutcomes :
          /\ RemoveApplies(CurStep(p).svc.Name, out)
          /\ LET name == CurStep(p).svc.Name
                 r    == RemoveService(World, name, out)
             IN  /\ SetWorld(r.w)
                 /\ rl' = [rl EXCEPT ![p] =
                             Advance(rl[p],
                                     IF r.err = "nil"
                                     THEN RecordSuccess(rl[p].reloadErr)
                                     ELSE RecordRemoveError(rl[p].reloadErr, name))]
                 /\ log' = Append(log, LogEntry("remove", name, r.err))
          /\ Charge(out)
    /\ UNCHANGED <<provider, scope, cfg, appState, startupErr, startOuts, appMu, stream,
                   emitted, taken, calls, result, quota>>
    /\ UNCHANGED auxVars

\* Update, first half: RemoveService of the old instance.
ApplyUpdateRemove(p) ==
    /\ rl[p].pc = "apply"
    /\ CurStep(p).kind = "update"
    /\ \E out \in RemoveOutcomes :
          /\ RemoveApplies(CurStep(p).svc.Name, out)
          /\ LET name == CurStep(p).svc.Name
                 r    == RemoveService(World, name, out)
             IN  /\ SetWorld(r.w)
                 /\ rl' = [rl EXCEPT ![p] =
                             IF r.err = "nil"
                             THEN [rl[p] EXCEPT !.pc = "update_add"]
                             ELSE Advance(rl[p],
                                          RecordUpdateError(rl[p].reloadErr, name))]
                 /\ log' = Append(log, LogEntry("update_rm", name, r.err))
          /\ Charge(out)
    /\ UNCHANGED <<provider, scope, cfg, appState, startupErr, startOuts, appMu, stream,
                   emitted, taken, calls, result, quota>>
    /\ UNCHANGED auxVars

\* Update, second half: AddService of the new spec.
ApplyUpdateAdd(p) ==
    /\ rl[p].pc = "update_add"
    /\ \E out \in StartOutcomes :
          /\ AddApplies(CurStep(p).svc.Name, out)
          /\ LET name == CurStep(p).svc.Name
                 r    == AddService(World, CurStep(p).svc, out)
             IN  /\ SetWorld(r.w)
                 /\ rl' = [rl EXCEPT ![p] =
                             Advance(rl[p],
                                     IF r.err = "nil"
                                     THEN RecordSuccess(rl[p].reloadErr)
                                     ELSE RecordAddError(rl[p].reloadErr, name))]
                 /\ log' = Append(log, LogEntry("update_add", name, r.err))
          /\ Charge(out)
    /\ UNCHANGED <<provider, scope, cfg, appState, startupErr, startOuts, appMu, stream,
                   emitted, taken, calls, result, quota>>
    /\ UNCHANGED auxVars

\* Add: a service of the new Config that the applied Config lacks.
ApplyAdd(p) ==
    /\ rl[p].pc = "apply"
    /\ CurStep(p).kind = "add"
    /\ \E out \in StartOutcomes :
          /\ AddApplies(CurStep(p).svc.Name, out)
          /\ LET name == CurStep(p).svc.Name
                 r    == AddService(World, CurStep(p).svc, out)
             IN  /\ SetWorld(r.w)
                 /\ rl' = [rl EXCEPT ![p] =
                             Advance(rl[p],
                                     IF r.err = "nil"
                                     THEN RecordSuccess(rl[p].reloadErr)
                                     ELSE RecordAddError(rl[p].reloadErr, name))]
                 /\ log' = Append(log, LogEntry("add", name, r.err))
          /\ Charge(out)
    /\ UNCHANGED <<provider, scope, cfg, appState, startupErr, startOuts, appMu, stream,
                   emitted, taken, calls, result, quota>>
    /\ UNCHANGED auxVars

\* ReloadError.ToError: nil unless an action failed.
ToError(e) == IF e.Failed > 0 THEN "reload" ELSE "nil"

\* A caller of reloadConfig that gives up when the reload returns an error.
AfterReload_Abort(err) ==
    IF err = "nil" THEN IdleReload ELSE [IdleReload EXCEPT !.pc = "aborted"]

\* The caller of reloadConfig logs the error and goes on.
AfterReload(err) == IdleReload

\* reloadConfig, last step: the new Config becomes the applied Config, the
\* mutex is released and the aggregate is returned.
Finish(p) ==
    /\ rl[p].pc = "finish"
    /\ cfg' = rl[p].newCfg
    /\ appMu' = "none"
    /\ result' = [result EXCEPT ![p] = ToError(rl[p].reloadErr)]
    /\ rl' = [rl EXCEPT ![p] = AfterReload(ToError(rl[p].reloadErr))]
    /\ log' = <<>>
    /\ UNCHANGED <<provider, scope, appState, startupErr, startOuts, stream, emitted,
                   taken, calls, quota, faultsLeft>>
    /\ UNCHANGED worldVars
    /\ UNCHANGED auxVars

(***************************************************************************)
(* Spec: the supervisor with its watch loop as the only source of reloads, *)
(* in an environment that may fail.                                        *)
(***************************************************************************)
Next ==
    \/ Start
    \/ Emit
    \/ Receive
    \/ Acquire("watcher")
    \/ ApplyRemove("watcher")
    \/ ApplyUpdateRemove("watcher")
    \/ ApplyUpdateAdd("watcher")
    \/ ApplyAdd("watcher")
    \/ Finish("watcher")

Spec == Init /\ [][Next]_vars

(***************************************************************************)
(* SpecServe: Spec, with serve errors.  The serve goroutine that           *)
(* startService leaves behind logs the error Serve returned and ends;      *)
(* Serve has closed the listener before it returns.  The errors arrive     *)
(* between reloads.                                                        *)
(***************************************************************************)
ServeError ==
    /\ appState = "running"
    /\ appMu = "none"
    /\ \E i \in 1..Len(services) :
          /\ services[i].server = "serving"
          /\ services' = [services EXCEPT ![i].server = "failed"]
          /\ nodes' = [nodes EXCEPT ![services[i].listener].listener =
                                        IF @ = "open" THEN "closed" ELSE @]
    /\ UNCHANGED <<appVars, serviceServers, stateDirs, priming>>
    /\ UNCHANGED auxVars

NextServe ==
    \/ Next
    \/ ServeError

SpecServe == Init /\ [][NextServe]_vars

(***************************************************************************)
(* SpecConc: reloadConfig is also called directly, concurrently with the   *)
(* watch loop, in a deployment of one service; the environment does not    *)
(* fail, and two more Configs are submitted than in Spec.                  *)
(***************************************************************************)
InitConc ==
    /\ scope = {"api"}
    /\ InitApp
    /\ quota = MaxReloads + 2
    /\ faultsLeft = 0

NextConc ==
    \/ Next
    \/ Call
    \/ Acquire("caller")
    \/ ApplyRemove("caller")
    \/ ApplyUpdateRemove("caller")
    \/ ApplyUpdateAdd("caller")
    \/ ApplyAdd("caller")
    \/ Finish("caller")

SpecConc == InitConc /\ [][NextConc]_vars

(***************************************************************************)
(* SpecDeep: a deployment of one service, followed through two more        *)
(* reloads and one more failure than Spec.                                 *)
(***************************************************************************)
InitDeep ==
    /\ scope = {"api"}
    /\ InitApp
    /\ quota = MaxReloads + 2
    /\ faultsLeft = MaxFaults + 1

SpecDeep == InitDeep /\ [][Next]_vars

(***************************************************************************)
(* SpecAdd: StartServices followed statement by statement.  startService   *)
(* acquires the listener, creates the handler, assembles the http.Server,  *)
(* starts the goroutine that runs Serve on the listener, and returns; the  *)
(* caller appends the service to the registry after the return.  A client  *)
(* of the mesh may send a request whenever a goroutine accepts on the      *)
(* listener.                                                               *)
(*   adding.pc       "none" before the loop, then the statement the call   *)
(*                   of startService for cfg.Services[adding.i] is at,     *)
(*                   "returned" once it has returned                       *)
(*   adding.serve    whether the serve goroutine of that call runs         *)
(*   adding.requests requests the http.Server of that call has served      *)
(***************************************************************************)
MaxRequests == 1    \* requests sent to the service one call starts

\* The variables of the supervisor that no statement of startService touches.
reloadVars == <<provider, scope, cfg, appState, startupErr, startOuts, appMu, stream,
                emitted, taken, calls, rl, result, log, quota, load, cli,
                lsn, mreq, agg>>

AddCalled(i) ==
    [pc |-> "listen", i |-> i, listener |-> NoNode, serve |-> FALSE,
     requests |-> 0, err |-> "nil"]

\* for _, svcCfg := range r.config.Services { svc, err := r.startService(svcCfg)
StartServices_Call ==
    /\ appState = "new"
    /\ adding.pc \in {"none", "returned"}
    /\ LET i == IF adding.pc = "none" THEN 1 ELSE adding.i + 1
       IN  /\ i <= Len(cfg.Services)
           /\ adding' = AddCalled(i)
    /\ UNCHANGED <<reloadVars, faultsLeft, sup, req>>
    /\ UNCHANGED worldVars

\* listener, err := r.tsServer.ListenWithService(...)
startService_Listen ==
    /\ adding.pc = "listen"
    /\ HasFree(nodes, 1)
    /\ \E out \in ListenOutcomes :
          /\ AddApplies(cfg.Services[adding.i].Name, out)
          /\ LET l == Listen(World, cfg.Services[adding.i], out)
             IN  /\ SetWorld(l.w)
                 /\ adding' = IF l.err # "nil"
                              THEN [adding EXCEPT !.pc = "returned", !.err = "resource"]
                              ELSE [adding EXCEPT !.pc = "handler",
                                                  !.listener = l.listener]
          /\ Charge(out)
    /\ UNCHANGED <<reloadVars, sup, req>>

\* handler, err := svc.CreateHandler(); on error the listener is closed.
startService_CreateHandler ==
    /\ adding.pc = "handler"
    /\ \E ok \in BOOLEAN :
          /\ (~ok => faultsLeft > 0)
          /\ Charge(IF ok THEN "ok" ELSE "handlerfail")
          /\ IF ok
             THEN /\ adding' = [adding EXCEPT !.pc = "serve"]
                  /\ UNCHANGED worldVars
             ELSE /\ adding' = [adding EXCEPT !.pc = "returned", !.err = "handler"]
                  /\ SetWorld([World EXCEPT !.nodes[adding.listener].listener = "closed"])
    /\ UNCHANGED <<reloadVars, sup, req>>

\* svc.server = &http.Server{...}; go func() { svc.server.Serve(listener) }()
startService_Serve ==
    /\ adding.pc = "serve"
    /\ adding' = [adding EXCEPT !.pc = "return", !.serve = TRUE]
    /\ UNCHANGED <<reloadVars, faultsLeft, sup, req>>
    /\ UNCHANGED worldVars

\* return svc, nil; r.services = append(r.services, svc)
startService_Return ==
    /\ adding.pc = "return"
    /\ adding' = [adding EXCEPT !.pc = "returned"]
    /\ SetWorld([World EXCEPT !.services =
                    Append(@, [Config   |-> cfg.Services[adding.i],
                               listener |-> adding.listener,
                               server   |-> "serving"])])
    /\ UNCHANGED <<reloadVars, faultsLeft, sup, req>>

\* The serve goroutine accepts a connection and the handler serves a request.
Accept ==
    /\ adding.pc \in {"listen", "handler", "serve", "return", "returned"}
    /\ adding.serve
    /\ nodes[adding.listener].listener = "open"
    /\ adding.requests < MaxRequests
    /\ adding' = [adding EXCEPT !.requests = @ + 1]
    /\ UNCHANGED <<reloadVars, faultsLeft, sup, req>>
    /\ UNCHANGED worldVars

InitAdd ==
    /\ scope = Names
    /\ InitApp
    /\ quota = 0
    /\ faultsLeft = MaxFaults

NextAdd ==
    \/ StartServices_Call
    \/ startService_Listen
    \/ startService_CreateHandler
    \/ startService_Serve
    \/ startService_Return
    \/ Accept

SpecAdd == InitAdd /\ [][NextAdd]_vars

(***************************************************************************)
(* SpecLife: the supervisor from Start to the end of Shutdown, without     *)
(* reloads.                                                                *)
(*   sup.pc         "up", or the step Shutdown is about to run ("cancel",  *)
(*                  "metrics", "registry", "close"), or "closed" once the  *)
(*                  first Shutdown has returned                            *)
(*   sup.watcher    the watcher goroutine: "none", "live" or "done"        *)
(*   sup.metrics    the metrics server: "none", "serving", "stopped", or   *)
(*                  "draining" after a Shutdown that hit its deadline      *)
(*   sup.log        the steps Shutdown has run                             *)
(*   sup.errs       the steps that returned an error                       *)
(*   sup.ret        the errors the last Shutdown call returned             *)
(*   sup.starts, sup.shutdowns   calls of Start and of Shutdown            *)
(***************************************************************************)
MaxStarts    == 2    \* calls of App.Start
MaxShutdowns == 2    \* calls of App.Shutdown

\* Registry.Shutdown: http.Server.Shutdown of every service in r.services,
\* whatever the others answer; the errors are joined; r.services is left
\* as it is.
RECURSIVE ShutdownFrom(_, _, _)
ShutdownFrom(w, oks, i) ==
    IF i > Len(w.services) THEN w
    ELSE ShutdownFrom(httpShutdown(w, i, oks[i]), oks, i + 1)

RegistryShutdown(w, oks) ==
    [w    |-> ShutdownFrom(w, oks, 1),
     errs |-> {w.services[i].Config.Name : i \in {j \in 1..Len(w.services) : ~oks[j]}}]

\* A Close that keeps the entries of the nodes that failed to close.
ServerClose_KeepsFailed(w, oks) ==
    [w    |-> [w EXCEPT
                 !.nodes = [i \in NodeIds |->
                              IF \E n \in Names : w.serviceServers[n] = i /\ oks[n]
                              THEN [w.nodes[i] EXCEPT
                                      !.state = "closed",
                                      !.listener = IF @ = "open" THEN "closed" ELSE @]
                              ELSE w.nodes[i]],
                 !.serviceServers = [n \in Names |->
                                       IF oks[n] THEN NoNode ELSE w.serviceServers[n]]],
     errs |-> {n \in Names : w.serviceServers[n] # NoNode /\ ~oks[n]}]

\* tailscale.Server.Close: Close of every node in serviceServers, the errors
\* joined; the map is replaced by an empty one.
ServerClose(w, oks) ==
    [w    |-> [w EXCEPT
                 !.nodes = [i \in NodeIds |->
                              IF \E n \in Names : w.serviceServers[n] = i /\ oks[n]
                              THEN [w.nodes[i] EXCEPT
                                      !.state = "closed",
                                      !.listener = IF @ = "open" THEN "closed" ELSE @]
                              ELSE w.nodes[i]],
                 !.serviceServers = [n \in Names |-> NoNode]],
     errs |-> {n \in Names : w.serviceServers[n] # NoNode /\ ~oks[n]}]

\* metrics.Server.Shutdown
metricsShutdown(m, ok) ==
    IF m = "none" THEN m ELSE IF ok THEN "stopped" ELSE "draining"

\* A Start after a successful Start returns at once.
Start_Again ==
    /\ appState = "running"
    /\ sup.pc = "up"
    /\ sup.starts < MaxStarts
    /\ sup' = [sup EXCEPT !.starts = @ + 1]
    /\ UNCHANGED <<reloadVars, faultsLeft, adding, req>>
    /\ UNCHANGED worldVars

\* A Shutdown that runs its steps at every call.
performsShutdown_Always(s) == TRUE

\* Only the first Shutdown runs the steps.
performsShutdown(s) == s.shutdowns = 0

Shutdown_Call ==
    /\ appState # "new"
    /\ sup.pc \in {"up", "closed"}
    /\ sup.shutdowns < MaxShutdowns
    /\ sup' = IF performsShutdown(sup)
              THEN [sup EXCEPT !.shutdowns = @ + 1, !.pc = "cancel", !.errs = {}]
              ELSE [sup EXCEPT !.shutdowns = @ + 1, !.ret = {}]
    /\ UNCHANGED <<reloadVars, faultsLeft, adding, req>>
    /\ UNCHANGED worldVars

\* Shutdown, step 1: the provider stream is cancelled and the watcher returns.
Shutdown_Cancel ==
    /\ sup.pc = "cancel"
    /\ sup' = [sup EXCEPT !.pc = "metrics",
                          !.log = Append(@, "cancel"),
                          !.watcher = IF @ = "live" THEN "done" ELSE @]
    /\ UNCHANGED <<reloadVars, faultsLeft, adding, req>>
    /\ UNCHANGED worldVars

\* Shutdown, step 2: the metrics server is shut down.
Shutdown_Metrics ==
    /\ sup.pc = "metrics"
    /\ \E ok \in BOOLEAN :
          /\ (~ok => faultsLeft > 0 /\ sup.metrics = "serving")
          /\ sup' = [sup EXCEPT !.pc = "registry",
                                !.log = Append(@, "metrics"),
                                !.metrics = metricsShutdown(@, ok),
                                !.errs = IF ok THEN @ ELSE @ \cup {"metrics"}]
          /\ Charge(IF ok THEN "ok" ELSE "fail")
    /\ UNCHANGED <<reloadVars, adding, req>>
    /\ UNCHANGED worldVars

\* Shutdown, step 3: Registry.Shutdown.
Shutdown_Registry ==
    /\ sup.pc = "registry"
    /\ \E oks \in [1..Len(services) -> BOOLEAN] :
          LET failed == {i \in 1..Len(services) : ~oks[i]}
              r      == RegistryShutdown(World, oks)
          IN  /\ \A i \in failed : services[i].server \in {"serving", "draining"}
              /\ Cardinality(failed) <= faultsLeft
              /\ faultsLeft' = faultsLeft - Cardinality(failed)
              /\ SetWorld(r.w)
              /\ sup' = [sup EXCEPT !.pc = "close",
                                    !.log = Append(@, "registry"),
                                    !.errs = IF r.errs = {} THEN @ ELSE @ \cup {"registry"}]
    /\ UNCHANGED <<reloadVars, adding, req>>

\* Shutdown, step 4: tailscale.Server.Close; Shutdown returns the errors of
\* its steps.
Shutdown_Close ==
    /\ sup.pc = "close"
    /\ \E oks \in [Names -> BOOLEAN] :
          LET failed == {n \in Names : ~oks[n]}
              r      == ServerClose(World, oks)
          IN  /\ \A n \in failed : serviceServers[n] # NoNode
              /\ Cardinality(failed) <= faultsLeft
              /\ faultsLeft' = faultsLeft - Cardinality(failed)
              /\ SetWorld(r.w)
              /\ sup' = [sup EXCEPT !.pc = "closed",
                                    !.log = Append(@, "close"),
                                    !.errs = IF r.errs = {} THEN @ ELSE @ \cup {"close"},
                                    !.ret = IF r.errs = {} THEN sup.errs
                                            ELSE sup.errs \cup {"close"}]
    /\ UNCHANGED <<reloadVars, adding, req>>

\* primeCertificate returns: it has made its request, or has given up.
PrimeDone ==
    /\ \E n \in priming : priming' = priming \ {n}
    /\ UNCHANGED <<services, serviceServers, nodes, stateDirs>>
    /\ UNCHANGED <<reloadVars, faultsLeft, sup, adding, req>>

InitLife ==
    /\ scope = Names
    /\ InitApp
    /\ quota = 0
    /\ faultsLeft = MaxFaults + 1

NextLife ==
    \/ Start
    \/ Start_Again
    \/ Shutdown_Call
    \/ Shutdown_Cancel
    \/ Shutdown_Metrics
    \/ Shutdown_Registry
    \/ Shutdown_Close
    \/ PrimeDone

SpecLife == InitLife /\ [][NextLife]_vars

(***************************************************************************)
(* SpecWhois: requests of one remote address passing the whois middleware  *)
(* of one service and the header rewrites of its proxy handler.  A header  *)
(* value is a sequence of bytes; a header map gives every identity header  *)
(* <<>> when the request lacks it and <<v>> when it carries the value v.   *)
(*   req.pc        "none" before Whois(...) is called, "ready" between     *)
(*                 requests, "arrived" with a request at the handler,      *)
(*                 "forwarded" when the request has gone upstream          *)
(*   req.enabled, req.cacheOn, req.remove   the middleware's and the       *)
(*                 proxy's configuration                                   *)
(*   req.cache     the cache's entry for the remote address                *)
(*   req.hdr       the identity headers of the request                     *)
(*   req.up        the identity headers of the upstream request            *)
(*   req.out       how the lookup of the last request ended                *)
(*   req.lookups, req.nexts   WhoIs calls and next.ServeHTTP calls made    *)
(*                 for the request                                         *)
(***************************************************************************)
MaxArrivals == 2    \* requests that arrive at the middleware

TsHeaders ==
    {"X-Tailscale-User", "X-Tailscale-Login", "X-Tailscale-Name",
     "X-Tailscale-Profile-Picture", "X-Tailscale-Addresses"}

Absent == <<>>

NoTsHeaders == [h \in TsHeaders |-> Absent]

\* Header values: bytes are named, "CR", "LF" and "NUL" are the control
\* bytes 0x0D, 0x0A and 0x00.
Strs == {<<>>, <<"a">>, <<"a", "CR", "LF", "b">>, <<"a", "NUL">>}

\* What the caller may have put into its request.
Inbound ==
    {NoTsHeaders,
     [NoTsHeaders EXCEPT !["X-Tailscale-User"] = <<(<<"m">>)>>],
     [h \in TsHeaders |-> <<(<<"m">>)>>]}

\* apitype.WhoIsResponse: the response, its UserProfile and its Node may
\* each be nil.
NilProfile == [nil |-> TRUE, LoginName |-> <<>>, DisplayName |-> <<>>, ProfilePicURL |-> <<>>]

UserProfiles ==
    {NilProfile} \cup
    {[nil |-> FALSE, LoginName |-> l, DisplayName |-> d, ProfilePicURL |-> u] :
        l \in Strs, d \in {<<>>, <<"a", "CR", "LF", "b">>}, u \in {<<>>, <<"a">>}}

NilNode == [nil |-> TRUE, Addresses |-> <<>>]

Nodes ==
    {NilNode} \cup
    {[nil |-> FALSE, Addresses |-> a] :
        a \in {<<>>, <<(<<"ip1">>)>>, <<(<<"ip1">>), (<<"ip2">>)>>}}

NilResponse == [nil |-> TRUE, UserProfile |-> NilProfile, Node |-> NilNode]

WhoIsResponses == {[nil |-> FALSE, UserProfile |-> u, Node |-> n] : u \in UserProfiles, n \in Nodes}

\* client.WhoIs: an error, the deadline, a nil response or a response.
WhoIsOutcomes ==
    {[err |-> e, resp |-> NilResponse] : e \in {"error", "timeout"}} \cup
    {[err |-> "nil", resp |-> r] : r \in WhoIsResponses \cup {NilResponse}}

\* The cache without the remote address.
NoEntry == [has |-> FALSE, resp |-> NilResponse]

\* strings.NewReplacer("\r", "", "\n", "")
sanitizeHeaderValue(v) == SelectSeq(v, LAMBDA c : c \notin {"CR", "LF"})

\* strings.Join(addresses, ",")
RECURSIVE Join(_)
Join(a) ==
    IF a = <<>> THEN <<>>
    ELSE IF Len(a) = 1 THEN a[1]
    ELSE a[1] \o <<",">> \o Join(Tail(a))

addUserHeaders(h, resp) ==
    IF resp.UserProfile.nil THEN h
    ELSE LET p  == resp.UserProfile
             h1 == IF p.LoginName # <<>>
                   THEN [h EXCEPT !["X-Tailscale-User"]  = <<sanitizeHeaderValue(p.LoginName)>>,
                                  !["X-Tailscale-Login"] = <<sanitizeHeaderValue(p.LoginName)>>]
                   ELSE h
             h2 == IF p.DisplayName # <<>>
                   THEN [h1 EXCEPT !["X-Tailscale-Name"] = <<sanitizeHeaderValue(p.DisplayName)>>]
                   ELSE h1
         IN  IF p.ProfilePicURL # <<>>
             THEN [h2 EXCEPT !["X-Tailscale-Profile-Picture"] =
                                 <<sanitizeHeaderValue(p.ProfilePicURL)>>]
             ELSE h2

addAddressHeaders(h, resp) ==
    IF resp.Node.nil \/ Len(resp.Node.Addresses) = 0 THEN h
    ELSE [h EXCEPT !["X-Tailscale-Addresses"] = <<Join(resp.Node.Addresses)>>]

\* A performWhoisLookup that adds to the cache whatever WhoIs answered.
performWhoisLookup_CachesAll(cacheOn, cache, h, out) ==
    LET hit  == cacheOn /\ cache.has
        resp == IF hit THEN cache.resp ELSE out.resp
    IN  IF ~hit /\ out.err # "nil"
        THEN [hdr |-> h, cache |-> IF cacheOn THEN [has |-> TRUE, resp |-> resp] ELSE cache,
              out |-> out.err, lookups |-> 1]
        ELSE [hdr     |-> IF resp.nil THEN h
                          ELSE addAddressHeaders(addUserHeaders(h, resp), resp),
              cache   |-> IF cacheOn /\ ~hit
                          THEN [has |-> TRUE, resp |-> resp] ELSE cache,
              out     |-> IF hit THEN "hit" ELSE IF resp.nil THEN "nilresp" ELSE "ok",
              lookups |-> IF hit THEN 0 ELSE 1]

\* performWhoisLookup: the headers and the cache it leaves, how the lookup
\* ended, and the WhoIs calls it made.  out is what WhoIs answers if called.
performWhoisLookup(cacheOn, cache, h, out) ==
    LET hit  == cacheOn /\ cache.has
        resp == IF hit THEN cache.resp ELSE out.resp
    IN  IF ~hit /\ out.err # "nil"
        THEN [hdr |-> h, cache |-> cache, out |-> out.err, lookups |-> 1]
        ELSE [hdr     |-> IF resp.nil THEN h
                          ELSE addAddressHeaders(addUserHeaders(h, resp), resp),
              cache   |-> IF cacheOn /\ ~hit /\ ~resp.nil
                          THEN [has |-> TRUE, resp |-> resp] ELSE cache,
              out     |-> IF hit THEN "hit" ELSE IF resp.nil THEN "nilresp" ELSE "ok",
              lookups |-> IF hit THEN 0 ELSE 1]

\* A handler that returns without calling next when the lookup fails.
WhoisHandler_ReturnsOnError(enabled, cacheOn, cache, h, out) ==
    IF ~enabled
    THEN [hdr |-> h, cache |-> cache, out |-> "off", lookups |-> 0, nexts |-> 1]
    ELSE LET r == performWhoisLookup(cacheOn, cache, h, out)
         IN  [hdr |-> r.hdr, cache |-> r.cache, out |-> r.out, lookups |-> r.lookups,
              nexts |-> IF r.out \in {"error", "timeout"} THEN 0 ELSE 1]

\* The handler Whois returns.
WhoisHandler(enabled, cacheOn, cache, h, out) ==
    IF ~enabled
    THEN [hdr |-> h, cache |-> cache, out |-> "off", lookups |-> 0, nexts |-> 1]
    ELSE LET r == performWhoisLookup(cacheOn, cache, h, out)
         IN  [hdr |-> r.hdr, cache |-> r.cache, out |-> r.out, lookups |-> r.lookups,
              nexts |-> 1]

\* The proxy handler's request rewrite, as far as the identity headers go:
\* the headers listed in RemoveUpstream are stripped.
rewriteUpstream(h, remove) == [x \in TsHeaders |-> IF x \in remove THEN Absent ELSE h[x]]

\* service.CreateHandler: the middleware and the proxy handler are built.
Whois ==
    /\ req.pc = "none"
    /\ \E enabled \in BOOLEAN, cacheOn \in BOOLEAN, remove \in {{}, {"X-Tailscale-User"}} :
          req' = [pc |-> "ready", enabled |-> enabled, cacheOn |-> cacheOn,
                  remove |-> remove, cache |-> NoEntry, hdr |-> NoTsHeaders,
                  up |-> NoTsHeaders, out |-> "none", lookups |-> 0, nexts |-> 0,
                  n |-> 0]
    /\ UNCHANGED <<reloadVars, faultsLeft, sup, adding>>
    /\ UNCHANGED worldVars

\* A request of the remote address arrives.
Arrive ==
    /\ req.pc \in {"ready", "forwarded"}
    /\ req.n < MaxArrivals
    /\ \E h \in Inbound :
          req' = [req EXCEPT !.pc = "arrived", !.hdr = h, !.up = NoTsHeaders,
                             !.out = "none", !.lookups = 0, !.nexts = 0, !.n = @ + 1]
    /\ UNCHANGED <<reloadVars, faultsLeft, sup, adding>>
    /\ UNCHANGED worldVars

\* The handler runs and the proxy forwards the request upstream.
ServeHTTP ==
    /\ req.pc = "arrived"
    /\ \E out \in WhoIsOutcomes :
          LET r == WhoisHandler(req.enabled, req.cacheOn, req.cache, req.hdr, out)
          IN  req' = [req EXCEPT !.pc = "forwarded", !.hdr = r.hdr, !.cache = r.cache,
                                 !.out = r.out, !.lookups = r.lookups, !.nexts = r.nexts,
                                 !.up = rewriteUpstream(r.hdr, req.remove)]
    /\ UNCHANGED <<reloadVars, faultsLeft, sup, adding>>
    /\ UNCHANGED worldVars

\* The entry of the remote address outlives its TTL.
Expire ==
    /\ req.pc \in {"ready", "forwarded"}
    /\ req.cache.has
    /\ req' = [req EXCEPT !.cache = NoEntry]
    /\ UNCHANGED <<reloadVars, faultsLeft, sup, adding>>
    /\ UNCHANGED worldVars

InitWhois ==
    /\ scope = {"api"}
    /\ InitApp
    /\ quota = 0
    /\ faultsLeft = 0

NextWhois ==
    \/ Whois
    \/ Arrive
    \/ ServeHTTP
    \/ Expire

SpecWhois == InitWhois /\ [][NextWhois]_vars

(***************************************************************************)
(* SpecRegistry: the registry driven through its operations in any order,  *)
(* in a deployment of one service: StartServices over the Config the       *)
(* registry was built with, AddService, RemoveService, UpdateService and   *)
(* Shutdown.  Every operation holds Registry.mu from entry to return.      *)
(***************************************************************************)
\* The services a caller can hand to AddService and UpdateService.
OfferedServices == {s \in ServiceVals : s.Name \in scope}

Registry_StartServices ==
    /\ HasFree(nodes, Len(cfg.Services))
    /\ \E outs \in [1..Len(cfg.Services) -> StartOutcomes] :
          LET faults == Cardinality({i \in 1..Len(outs) : outs[i] # "ok"})
          IN  /\ \A i \in 1..Len(outs) :
                    outs[i] = "authfail"
                        => ~hasExistingState(stateDirs, cfg.Services[i].Name)
              /\ faults <= faultsLeft
              /\ SetWorld(StartServices(World, cfg.Services, outs).w)
              /\ faultsLeft' = faultsLeft - faults
    /\ UNCHANGED <<reloadVars, sup, adding, req>>

Registry_AddService ==
    /\ \E svc \in OfferedServices, out \in StartOutcomes :
          /\ AddApplies(svc.Name, out)
          /\ SetWorld(AddService(World, svc, out).w)
          /\ Charge(out)
    /\ UNCHANGED <<reloadVars, sup, adding, req>>

Registry_RemoveService ==
    /\ \E name \in scope, out \in RemoveOutcomes :
          /\ RemoveApplies(name, out)
          /\ SetWorld(RemoveService(World, name, out).w)
          /\ Charge(out)
    /\ UNCHANGED <<reloadVars, sup, adding, req>>

\* UpdateService: RemoveService of the running instance, then AddService
\* of the new spec; a failed Remove ends the update.
Registry_UpdateService ==
    /\ \E svc \in OfferedServices, rout \in RemoveOutcomes, aout \in StartOutcomes :
          LET r == RemoveService(World, svc.Name, rout)
              faults == (IF rout = "ok" THEN 0 ELSE 1)
                            + (IF r.err = "nil" /\ aout # "ok" THEN 1 ELSE 0)
          IN  /\ IndexOf(services, svc.Name) # 0
              /\ rout = "closefail" => serviceServers[svc.Name] # NoNode
              /\ HasFree(nodes, 1)
              /\ aout = "authfail" => ~hasExistingState(stateDirs, svc.Name)
              /\ r.err # "nil" => aout = "ok"
              /\ faults <= faultsLeft
              /\ faultsLeft' = faultsLeft - faults
              /\ SetWorld(IF r.err # "nil" THEN r.w
                          ELSE AddService(Collect(r.w), svc, aout).w)
    /\ UNCHANGED <<reloadVars, sup, adding, req>>

Registry_Shutdown ==
    /\ \E oks \in [1..Len(services) -> BOOLEAN] :
          LET failed == {i \in 1..Len(services) : ~oks[i]}
          IN  /\ \A i \in failed : services[i].server \in {"serving", "draining"}
              /\ Cardinality(failed) <= faultsLeft
              /\ faultsLeft' = faultsLeft - Cardinality(failed)
              /\ SetWorld(RegistryShutdown(World, oks).w)
    /\ UNCHANGED <<reloadVars, sup, adding, req>>

InitRegistry ==
    /\ scope = {"api"}
    /\ InitApp
    /\ quota = 0
    /\ faultsLeft = MaxFaults

NextRegistry ==
    \/ Registry_StartServices
    \/ Registry_AddService
    \/ Registry_RemoveService
    \/ Registry_UpdateService
    \/ Registry_Shutdown

SpecRegistry == InitRegistry /\ [][NextRegistry]_vars

(***************************************************************************)
(* Loading a Config.  The provider's Load reads a Config and passes it     *)
(* through config.ProcessLoadedConfigWithProvider: resolveSecrets,         *)
(* SetDefaults, Normalize, Validate.                                       *)
(*   load.pc   "none", "processed" once the pipeline has run, "reprocessed"*)
(*             once SetDefaults, Normalize and Validate have run again     *)
(*   load.raw  the Config as the provider read it                          *)
(*   load.env  the files and environment variables resolveSecrets saw      *)
(*   load.cfg  the Config the pipeline left                                *)
(*   load.err  "nil", "secrets" or "validate": what the pipeline returned  *)
(*   load.cfg2, load.err2  the same, for the second application            *)
(* A value of type Duration is a record of the duration and its IsSet flag;*)
(* a *bool is "nil", "true" or "false"; a []string is "nil", "empty" or    *)
(* the one tag list "t".                                                   *)
(***************************************************************************)
NoDuration == [Duration |-> 0, IsSet |-> FALSE]

SetDuration(d) == [Duration |-> d, IsSet |-> TRUE]

DefaultShutdownTimeout  == 30
DefaultWriteTimeout     == 30
DefaultAccessLogEnabled == "true"
DefaultWhoisEnabled     == "true"
DefaultTLSMode          == "auto"

\* What resolveSecrets finds outside the Config: whether the secret file can
\* be read (it holds "fv"), the value of the named environment variable and
\* the value of the default one ("" when unset).
Envs == [readable : BOOLEAN, named : {"", "ev"}, fallback : {"", "dv"}]

NoEnv == [readable |-> FALSE, named |-> "", fallback |-> ""]

\* ResolveSecretWithFallback: the first source that yields a value wins, in
\* the order direct value, file, named variable, default variable; a file
\* that cannot be read is an error.
ResolveSecretWithFallback(direct, envVar, fileVar, env) ==
    IF direct # "" THEN [val |-> direct, err |-> FALSE]
    ELSE IF fileVar # ""
        THEN IF env.readable THEN [val |-> "fv", err |-> FALSE]
                             ELSE [val |-> "", err |-> TRUE]
    ELSE IF envVar # "" /\ env.named # "" THEN [val |-> env.named, err |-> FALSE]
    ELSE [val |-> env.fallback, err |-> FALSE]

\* One turn of the loop of resolveSecrets, on the secret <<value, envVar,
\* fileVar>>.
resolveSecret(s, env) ==
    IF s.envVar # "" \/ s.fileVar # ""
        THEN LET r == ResolveSecretWithFallback("", s.envVar, s.fileVar, env)
             IN  IF r.err
                     THEN [value |-> "", envVar |-> s.envVar, fileVar |-> s.fileVar,
                           err |-> TRUE]
                     ELSE [value |-> r.val, envVar |-> "", fileVar |-> "", err |-> FALSE]
    ELSE IF s.value = ""
        THEN [value |-> env.fallback, envVar |-> "", fileVar |-> "", err |-> FALSE]
    ELSE [value |-> s.value, envVar |-> "", fileVar |-> "", err |-> FALSE]

\* The three secrets of the Tailscale section, in the order of the loop.
SecretOf(ts, name) ==
    CASE name = "OAuthClientID" ->
            [value |-> ts.OAuthClientID, envVar |-> ts.OAuthClientIDEnv,
             fileVar |-> ts.OAuthClientIDFile]
      [] name = "OAuthClientSecret" ->
            [value |-> ts.OAuthClientSecret, envVar |-> ts.OAuthClientSecretEnv,
             fileVar |-> ts.OAuthClientSecretFile]
      [] name = "AuthKey" ->
            [value |-> ts.AuthKey, envVar |-> ts.AuthKeyEnv, fileVar |-> ts.AuthKeyFile]

SecretNames == {"OAuthClientID", "OAuthClientSecret", "AuthKey"}

\* resolveSecrets: the loop returns at the first secret that fails, and
\* leaves the secrets after it untouched.
resolveSecrets(c, env) ==
    LET ts  == c.Tailscale
        id  == resolveSecret(SecretOf(ts, "OAuthClientID"), env)
        sec == resolveSecret(SecretOf(ts, "OAuthClientSecret"), env)
        key == resolveSecret(SecretOf(ts, "AuthKey"), env)
        ts1 == [ts EXCEPT !.OAuthClientID = id.value, !.OAuthClientIDEnv = id.envVar,
                          !.OAuthClientIDFile = id.fileVar]
        ts2 == [ts1 EXCEPT !.OAuthClientSecret = sec.value,
                           !.OAuthClientSecretEnv = sec.envVar,
                           !.OAuthClientSecretFile = sec.fileVar]
        ts3 == [ts2 EXCEPT !.AuthKey = key.value, !.AuthKeyEnv = key.envVar,
                           !.AuthKeyFile = key.fileVar]
    IN  IF id.err THEN [cfg |-> [c EXCEPT !.Tailscale = ts1], err |-> TRUE]
        ELSE IF sec.err THEN [cfg |-> [c EXCEPT !.Tailscale = ts2], err |-> TRUE]
        ELSE [cfg |-> [c EXCEPT !.Tailscale = ts3], err |-> key.err]

\* A SetDefaults that leaves an empty tls_mode as it is.
SetDefaults_KeepsTLSMode(c) ==
    [c EXCEPT
        !.Global.ShutdownTimeout =
            IF @.IsSet THEN @ ELSE SetDuration(DefaultShutdownTimeout),
        !.Global.WriteTimeout =
            IF @.IsSet THEN @ ELSE SetDuration(DefaultWriteTimeout),
        !.Global.AccessLog = IF @ = "nil" THEN DefaultAccessLogEnabled ELSE @,
        !.Services =
            [i \in 1..Len(c.Services) |->
                [c.Services[i] EXCEPT
                    !.WhoisEnabled = IF @ = "nil" THEN DefaultWhoisEnabled ELSE @]]]

\* Config.SetDefaults.
SetDefaults(c) ==
    [c EXCEPT
        !.Global.ShutdownTimeout =
            IF @.IsSet THEN @ ELSE SetDuration(DefaultShutdownTimeout),
        !.Global.WriteTimeout =
            IF @.IsSet THEN @ ELSE SetDuration(DefaultWriteTimeout),
        !.Global.AccessLog = IF @ = "nil" THEN DefaultAccessLogEnabled ELSE @,
        !.Services =
            [i \in 1..Len(c.Services) |->
                [c.Services[i] EXCEPT
                    !.WhoisEnabled = IF @ = "nil" THEN DefaultWhoisEnabled ELSE @,
                    !.TLSMode = IF @ = "" THEN DefaultTLSMode ELSE @]]]

\* A Normalize that adds the global write timeout to the service's own.
Normalize_Accumulate(c) ==
    [c EXCEPT
        !.Services =
            [i \in 1..Len(c.Services) |->
                [c.Services[i] EXCEPT
                    !.WriteTimeout =
                        SetDuration(@.Duration + c.Global.WriteTimeout.Duration),
                    !.AccessLog = IF @ = "nil" THEN c.Global.AccessLog ELSE @,
                    !.Tags = IF @ = "nil" /\ c.Tailscale.DefaultTags # "nil"
                                 THEN c.Tailscale.DefaultTags ELSE @]]]

\* Config.Normalize.
Normalize(c) ==
    [c EXCEPT
        !.Services =
            [i \in 1..Len(c.Services) |->
                [c.Services[i] EXCEPT
                    !.WriteTimeout = IF @.IsSet THEN @ ELSE c.Global.WriteTimeout,
                    !.AccessLog = IF @ = "nil" THEN c.Global.AccessLog ELSE @,
                    !.Tags = IF @ = "nil" /\ c.Tailscale.DefaultTags # "nil"
                                 THEN c.Tailscale.DefaultTags ELSE @]]]

\* config.ProcessLoadedConfigWithProvider.
ProcessLoadedConfigWithProvider(c, prov, env) ==
    LET r == resolveSecrets(c, env)
        n == Normalize(SetDefaults(r.cfg))
    IN  IF r.err THEN [cfg |-> r.cfg, err |-> "secrets"]
        ELSE [cfg |-> n, err |-> IF Validate(n, prov) THEN "nil" ELSE "validate"]

\* validateBackendAddress of the container-label provider.
validateBackendAddress(addr) ==
    /\ addr # ""
    /\ IF IsUnix(addr) THEN UnixLen(addr) > 7
                       ELSE PortOf(addr) # NoPort /\ PortOf(addr) \in 1..65535

(***************************************************************************)
(* The Configs a provider can read.                                        *)
(***************************************************************************)
RawService(n, b, tls, tags, wt, al, wh) ==
    [Name |-> n, BackendAddr |-> b, TLSMode |-> tls, Tags |-> tags,
     WriteTimeout |-> wt, AccessLog |-> al, WhoisEnabled |-> wh]

\* A service that leaves everything but its name and backend unset.
BaseService(n) == RawService(n, "b8080", "", "nil", NoDuration, "nil", "nil")

\* The base service and the services that differ from it in one respect.
RawServices ==
    {BaseService(n) : n \in Names \cup {""}}
    \cup {[BaseService(n) EXCEPT !.BackendAddr = b] :
             n \in Names, b \in BackendAddrs \cup {""}}
    \cup {[BaseService(n) EXCEPT !.TLSMode = t] : n \in Names, t \in {"auto", "off", "tls13"}}
    \cup {[BaseService(n) EXCEPT !.Tags = t] : n \in Names, t \in {"empty", "t"}}
    \cup {[BaseService(n) EXCEPT !.WriteTimeout = SetDuration(0), !.AccessLog = "false",
                                 !.WhoisEnabled = "false"] : n \in Names}

\* Service lists: any one service, followed by base services.
RawServiceLists ==
    {<<>>} \cup
    {s \in SeqsUpTo(RawServices, MaxServices) :
        /\ Len(s) >= 1
        /\ \A i \in 2..Len(s) : s[i] \in {BaseService(n) : n \in Names}}

RawGlobals ==
    {[ShutdownTimeout |-> NoDuration, WriteTimeout |-> NoDuration, AccessLog |-> "nil"],
     [ShutdownTimeout |-> SetDuration(1), WriteTimeout |-> NoDuration, AccessLog |-> "true"],
     [ShutdownTimeout |-> SetDuration(0), WriteTimeout |-> SetDuration(1),
      AccessLog |-> "false"]}

MkTailscale(key, keyEnv, keyFile, id, idEnv, idFile, sec, secEnv, secFile, tags) ==
    [AuthKey |-> key, AuthKeyEnv |-> keyEnv, AuthKeyFile |-> keyFile,
     OAuthClientID |-> id, OAuthClientIDEnv |-> idEnv, OAuthClientIDFile |-> idFile,
     OAuthClientSecret |-> sec, OAuthClientSecretEnv |-> secEnv,
     OAuthClientSecretFile |-> secFile, DefaultTags |-> tags]

\* Tailscale sections whose secrets are given directly or not at all.
DirectTailscale ==
    {MkTailscale(key, "", "", id, "", "", sec, "", "", tags) :
        key \in {"", "k"}, id \in {"", "id"}, sec \in {"", "s"},
        tags \in {"nil", "empty", "t"}}

\* Tailscale sections with every combination of sources for every secret.
SourcedTailscale ==
    {MkTailscale(key, keyEnv, keyFile, id, idEnv, idFile, sec, secEnv, secFile, "t") :
        key \in {"", "k"}, keyEnv \in {"", "E"}, keyFile \in {"", "/f"},
        id \in {"", "id"}, idEnv \in {"", "E"}, idFile \in {"", "/f"},
        sec \in {"", "s"}, secEnv \in {"", "E"}, secFile \in {"", "/f"}}

\* What Load is run on: every service list with directly given secrets and
\* an empty environment, or every combination of secret sources and
\* environments with one base service.
LoadInputs ==
    {[cfg |-> [Tailscale |-> ts, Global |-> g, Services |-> s], env |-> NoEnv] :
        ts \in DirectTailscale, g \in RawGlobals, s \in RawServiceLists}
    \cup
    {[cfg |-> [Tailscale |-> ts,
               Global |-> [ShutdownTimeout |-> NoDuration, WriteTimeout |-> NoDuration,
                           AccessLog |-> "nil"],
               Services |-> <<BaseService("api")>>],
      env |-> e] :
        ts \in SourcedTailscale, e \in Envs}

\* The provider's Load.  The container-label provider drops a container
\* whose backend address validateBackendAddress rejects, so no such service
\* reaches the pipeline from it.
Load ==
    /\ load.pc = "none"
    /\ \E inp \in LoadInputs :
          /\ provider = "docker" =>
                \A i \in 1..Len(inp.cfg.Services) :
                    validateBackendAddress(inp.cfg.Services[i].BackendAddr)
          /\ LET r == ProcessLoadedConfigWithProvider(inp.cfg, provider, inp.env)
             IN  load' = [pc |-> "processed", raw |-> inp.cfg, env |-> inp.env,
                          cfg |-> r.cfg, err |-> r.err]
    /\ UNCHANGED <<appVars, sup, adding, req, cli, lsn, mreq, agg>>
    /\ UNCHANGED worldVars

\* SetDefaults, Normalize and Validate once more, on the Config they left.
Reprocess ==
    /\ load.pc = "processed"
    /\ load.err # "secrets"
    /\ LET n == Normalize(SetDefaults(load.cfg))
       IN  load' = [pc |-> "reprocessed", raw |-> load.raw, env |-> load.env,
                    cfg |-> load.cfg, err |-> load.err, cfg2 |-> n,
                    err2 |-> IF Validate(n, provider) THEN "nil" ELSE "validate"]
    /\ UNCHANGED <<appVars, sup, adding, req, cli, lsn, mreq, agg>>
    /\ UNCHANGED worldVars

InitLoad ==
    /\ scope = Names
    /\ quota = 0
    /\ faultsLeft = 0
    /\ InitApp
    /\ cfg = MkConfig(<<MkService("api", "b8080", "nil")>>)

NextLoad ==
    \/ Load
    \/ Reprocess

SpecLoad == InitLoad /\ [][NextLoad]_vars

(***************************************************************************)
(* The command line program: main parses the flags, run does the work, and *)
(* main turns what run returned into the exit code.                        *)
(*   cli.pc    "none", "parsed" once parseCLIArgs has returned the flags,  *)
(*             "waiting" while run waits for a signal, "exited"            *)
(*   cli.args  the parsed flags                                            *)
(*   cli.code  the argument of the exitFunc call                           *)
(*   cli.why   what ended the run                                          *)
(***************************************************************************)
CliArgs ==
    [configPath : {"", "c.toml"}, provider : Providers,
     help : BOOLEAN, version : BOOLEAN, validate : BOOLEAN]

\* The Configs the provider of a run can read.
CliInputs ==
    {inp \in LoadInputs :
        /\ inp.env = NoEnv
        /\ inp.cfg.Tailscale.DefaultTags = "nil"
        /\ ~inp.cfg.Global.ShutdownTimeout.IsSet
        /\ Len(inp.cfg.Services) <= 1
        /\ \A i \in 1..Len(inp.cfg.Services) :
              inp.cfg.Services[i] \in {BaseService(n) : n \in Names \cup {""}}}

Exited(args, code, why) == [pc |-> "exited", args |-> args, code |-> code, why |-> why]

\* setupCommon: the file provider needs a -config flag.
setupCommon(args) == ~(args.provider = "file" /\ args.configPath = "")

\* What main does with the error run returned.
ExitOf(args, err) == Exited(args, IF err = "nil" THEN 0 ELSE 1, err)

\* main: parseCLIArgs.  A command line the flag package rejects ends the
\* process with exitFunc(2).
main_parseCLIArgs ==
    /\ cli.pc = "none"
    /\ \/ \E args \in CliArgs : cli' = [pc |-> "parsed", args |-> args]
       \/ cli' = [pc |-> "exited", code |-> 2, why |-> "flags"]
    /\ UNCHANGED <<appVars, sup, adding, req, load, lsn, mreq, agg>>
    /\ UNCHANGED worldVars

\* run, for -help and -version.
run_Info ==
    /\ cli.pc = "parsed"
    /\ cli.args.help \/ cli.args.version
    /\ cli' = ExitOf(cli.args, "nil")
    /\ UNCHANGED <<appVars, sup, adding, req, load, lsn, mreq, agg>>
    /\ UNCHANGED worldVars

\* validateConfig, called by run for -validate: setupCommon, createProvider,
\* the provider's Load, Validate.
validateConfig ==
    /\ cli.pc = "parsed"
    /\ ~cli.args.help /\ ~cli.args.version
    /\ cli.args.validate
    /\ IF ~setupCommon(cli.args)
           THEN cli' = ExitOf(cli.args, "config flag missing")
           ELSE \/ cli' = ExitOf(cli.args, "provider")
                \/ \E inp \in CliInputs :
                      LET r == ProcessLoadedConfigWithProvider(inp.cfg, cli.args.provider,
                                                               inp.env)
                      IN  cli' = ExitOf(cli.args,
                                        IF r.err # "nil" THEN "load"
                                        ELSE IF ~Validate(r.cfg, cli.args.provider)
                                            THEN "validation"
                                        ELSE "nil")
    /\ UNCHANGED <<appVars, sup, adding, req, load, lsn, mreq, agg>>
    /\ UNCHANGED worldVars

\* run without -validate, up to the wait for a signal: setupCommon,
\* createProvider, newApp, Start.
run_Start ==
    /\ cli.pc = "parsed"
    /\ ~cli.args.help /\ ~cli.args.version
    /\ ~cli.args.validate
    /\ IF ~setupCommon(cli.args)
           THEN cli' = ExitOf(cli.args, "config flag missing")
           ELSE \/ \E err \in {"provider", "create", "start"} : cli' = ExitOf(cli.args, err)
                \/ cli' = [pc |-> "waiting", args |-> cli.args]
    /\ UNCHANGED <<appVars, sup, adding, req, load, lsn, mreq, agg>>
    /\ UNCHANGED worldVars

\* run from the signal on: Shutdown, and the return to main.
run_Shutdown ==
    /\ cli.pc = "waiting"
    /\ \E err \in {"nil", "shutdown"} : cli' = ExitOf(cli.args, err)
    /\ UNCHANGED <<appVars, sup, adding, req, load, lsn, mreq, agg>>
    /\ UNCHANGED worldVars

InitMain ==
    /\ scope = Names
    /\ quota = 0
    /\ faultsLeft = 0
    /\ InitApp
    /\ cfg = MkConfig(<<MkService("api", "b8080", "nil")>>)

NextMain ==
    \/ main_parseCLIArgs
    \/ run_Info
    \/ validateConfig
    \/ run_Start
    \/ run_Shutdown

SpecMain == InitMain /\ [][NextMain]_vars

(***************************************************************************)
(* SpecServer: the mesh node manager alone, tailscale.Server, called in    *)
(* any order through Listen, CloseService and Close, with the priming      *)
(* goroutines its Listen calls leave behind.  Every call holds Server.mu   *)
(* from entry to return.                                                   *)
(*   lsn.pc    the call that returned last                                 *)
(*   lsn.name  its service name; lsn.err what it returned                  *)
(*   lsn.node  the node recorded under the name when the call was made     *)
(*   lsn.listens  the Listen calls made so far                             *)
(***************************************************************************)
\* The variables of the supervisor other than the failures left to inject.
supervisorVars == <<provider, scope, cfg, appState, startupErr, startOuts, appMu,
                    stream, emitted, taken, calls, rl, result, log, quota>>

\* The tlsMode arguments: the two known modes and an unknown one.
TLSModes == {"auto", "off", "tls13"}

MaxListens == 3    \* Listen calls made to one Server

\* The Listen calls made so far.
Listens == IF lsn.pc = "none" THEN 0 ELSE lsn.listens

\* The Close calls Server.Close makes on each node: one per map entry.
CloseCalls(w) ==
    [i \in NodeIds |-> Cardinality({n \in Names : w.serviceServers[n] = i})]

Server_Listen ==
    /\ HasFree(nodes, 1)
    /\ Listens < MaxListens
    /\ \E name \in scope, tlsMode \in TLSModes, funnelEnabled \in BOOLEAN,
          out \in ListenOutcomes :
          LET r == ListenWithService(World, MkService(name, "b8080", "nil"),
                                     tlsMode, funnelEnabled, out)
          IN  /\ out = "authfail" => ~hasExistingState(stateDirs, name)
              /\ out # "ok" => faultsLeft > 0
              /\ Charge(out)
              /\ SetWorld(r.w)
              /\ lsn' = [pc |-> "Listen", name |-> name, tlsMode |-> tlsMode,
                         funnelEnabled |-> funnelEnabled, err |-> r.err,
                         node |-> serviceServers[name], listener |-> r.listener,
                         sel |-> r.sel, primes |-> r.primes,
                         listens |-> Listens + 1]
    /\ UNCHANGED <<supervisorVars, sup, adding, req, load, cli, mreq, agg>>

Server_CloseService ==
    /\ \E name \in scope, closeOK \in BOOLEAN :
          LET r == CloseService(World, name, closeOK)
          IN  /\ ~closeOK => serviceServers[name] # NoNode /\ faultsLeft > 0
              /\ Charge(IF closeOK THEN "ok" ELSE "closefail")
              /\ SetWorld(r.w)
              /\ lsn' = [pc |-> "CloseService", name |-> name, err |-> r.err,
                         node |-> serviceServers[name], listens |-> Listens]
    /\ UNCHANGED <<supervisorVars, sup, adding, req, load, cli, mreq, agg>>

Server_Close ==
    /\ \E oks \in [Names -> BOOLEAN] :
          LET r == ServerClose(World, oks)
              failed == {n \in Names : ~oks[n]}
          IN  /\ \A n \in failed : serviceServers[n] # NoNode
              /\ Cardinality(failed) <= faultsLeft
              /\ faultsLeft' = faultsLeft - Cardinality(failed)
              /\ SetWorld(r.w)
              /\ lsn' = [pc |-> "Close", errs |-> r.errs, calls |-> CloseCalls(World),
                         failed |-> {serviceServers[n] : n \in failed},
                         listens |-> Listens]
    /\ UNCHANGED <<supervisorVars, sup, adding, req, load, cli, mreq, agg>>

InitServer ==
    /\ scope = Names
    /\ InitApp
    /\ cfg = MkConfig(<<MkService("api", "b8080", "nil")>>)
    /\ quota = 0
    /\ faultsLeft = MaxFaults + 1

NextServer ==
    \/ Server_Listen
    \/ Server_CloseService
    \/ Server_Close
    \/ PrimeDone

SpecServer == InitServer /\ [][NextServer]_vars

(***************************************************************************)
(* SpecWatch: the watch loop with its two ways to end, and Shutdown.       *)
(* watchConfigChanges(ctx, configCh) waits for the context and for the     *)
(* stream at once; it reloads each Config it receives and returns when the *)
(* context is done or the stream is closed.                                *)
(*   sup.ctx     the context of Start: "live" or "cancelled"               *)
(*   sup.closed  the provider has closed the stream                        *)
(***************************************************************************)
\* The cases of the loop's select that are ready: the context is done, a
\* Config is in the channel, or the channel is closed and drained.
SelectCases(cancelled, q, closed) ==
    (IF cancelled THEN {"done"} ELSE {})
        \cup (IF q # <<>> THEN {"config"} ELSE IF closed THEN {"closed"} ELSE {})

\* A loop that takes what a closed channel yields for a Config.
OnCase_ReloadsOnClose(c) == IF c = "done" THEN "return" ELSE "reload"

\* What the loop does in each case.
OnCase(c) == IF c = "config" THEN "reload" ELSE "return"

\* The context Start was called with is cancelled.
Watch_Cancel ==
    /\ appState = "running"
    /\ sup.ctx = "live"
    /\ sup' = [sup EXCEPT !.ctx = "cancelled"]
    /\ UNCHANGED <<appVars, adding, req, load, cli, lsn, mreq, agg>>
    /\ UNCHANGED worldVars

\* The provider closes its stream.
Watch_CloseStream ==
    /\ appState = "running"
    /\ ~sup.closed
    /\ sup' = [sup EXCEPT !.closed = TRUE]
    /\ UNCHANGED <<appVars, adding, req, load, cli, lsn, mreq, agg>>
    /\ UNCHANGED worldVars

\* The provider sends a Config on its open stream.
Watch_Emit ==
    /\ ~sup.closed
    /\ Emit

\* The loop takes a case that makes it reload.
Watch_Receive ==
    /\ sup.watcher = "live"
    /\ rl["watcher"].pc = "idle"
    /\ \E c \in SelectCases(sup.ctx = "cancelled", stream, sup.closed) :
          /\ OnCase(c) = "reload"
          /\ IF c = "config"
             THEN Receive
             ELSE /\ taken' = taken + 1
                  /\ result' = [result EXCEPT !["watcher"] = "invalid"]
                  /\ UNCHANGED <<provider, scope, cfg, appState, startupErr, startOuts,
                                 appMu, stream, emitted, calls, rl, log, quota,
                                 faultsLeft>>
                  /\ UNCHANGED worldVars
                  /\ UNCHANGED auxVars

\* The loop takes a case that makes it return.
Watch_Return ==
    /\ sup.watcher = "live"
    /\ rl["watcher"].pc = "idle"
    /\ \E c \in SelectCases(sup.ctx = "cancelled", stream, sup.closed) :
          OnCase(c) = "return"
    /\ sup' = [sup EXCEPT !.watcher = "done"]
    /\ UNCHANGED <<appVars, adding, req, load, cli, lsn, mreq, agg>>
    /\ UNCHANGED worldVars

\* Shutdown, step 1, while reloads may be in progress: the provider stream
\* is cancelled; Shutdown goes on without waiting for the loop.
Watch_ShutdownCancel ==
    /\ sup.pc = "cancel"
    /\ sup' = [sup EXCEPT !.pc = "metrics",
                          !.log = Append(@, "cancel"),
                          !.closed = TRUE]
    /\ UNCHANGED <<appVars, adding, req, load, cli, lsn, mreq, agg>>
    /\ UNCHANGED worldVars

\* The steps of the watcher goroutine and those of a Shutdown call.
WatcherStep ==
    \/ Watch_Receive
    \/ Watch_Return
    \/ Acquire("watcher")
    \/ ApplyRemove("watcher")
    \/ ApplyUpdateRemove("watcher")
    \/ ApplyUpdateAdd("watcher")
    \/ ApplyAdd("watcher")
    \/ Finish("watcher")

ShutdownStep ==
    \/ Watch_ShutdownCancel
    \/ Shutdown_Metrics
    \/ Shutdown_Registry
    \/ Shutdown_Close

InitWatch ==
    /\ scope = {"api"}
    /\ InitApp
    /\ provider = "docker"
    /\ quota = MaxReloads
    /\ faultsLeft = 0

NextWatch ==
    \/ Start
    \/ Watch_Emit
    \/ Watch_Cancel
    \/ Watch_CloseStream
    \/ Shutdown_Call
    \/ WatcherStep
    \/ ShutdownStep

\* The scheduler runs every goroutine that can take a step.
SpecWatch ==
    /\ InitWatch
    /\ [][NextWatch]_vars
    /\ WF_vars(WatcherStep)
    /\ WF_vars(ShutdownStep)

(***************************************************************************)
(* SpecMetrics: requests of one service passing Collector.Middleware.  The *)
(* next handler calls WriteHeader, Write and Flush on the wrapped writer   *)
(* in any order and then returns or panics.                                *)
(*   mreq.pc      "handling" while next.ServeHTTP runs, "done" afterwards  *)
(*   mreq.rw      the responseWriter: statusCode and written               *)
(*   mreq.under   the ResponseWriter it wraps: the status line sent to the *)
(*                client, if any                                           *)
(*   mreq.early   Flush was called before any status was written           *)
(*   mreq.panicked, mreq.propagated   how next.ServeHTTP ended, and        *)
(*                whether the panic left the middleware                    *)
(*   mreq.total, mreq.observed, mreq.errors   requests_total by status,    *)
(*                observations of the histogram, errors_total{panic}       *)
(***************************************************************************)
MaxHandlerCalls == 2    \* calls the next handler makes on the writer

StatusOK == 200

StatusInternalServerError == 500

\* The status codes a handler writes.
Statuses == {StatusOK, 404, StatusInternalServerError}

\* net/http's response: the first WriteHeader call sends the status line.
underWriteHeader(u, code) ==
    IF u.wroteHeader THEN u ELSE [wroteHeader |-> TRUE, status |-> code]

\* net/http's response: Write and Flush send the status line with 200 when
\* none was sent before.
underWrite(u) == underWriteHeader(u, StatusOK)

\* responseWriter.WriteHeader
rwWriteHeader(w, code) ==
    IF ~w.rw.written
    THEN [rw    |-> [statusCode |-> code, written |-> TRUE],
          under |-> underWriteHeader(w.under, code)]
    ELSE w

\* responseWriter.Write
rwWrite(w) ==
    LET w1 == IF ~w.rw.written THEN rwWriteHeader(w, StatusOK) ELSE w
    IN  [w1 EXCEPT !.under = underWrite(@)]

\* responseWriter.Flush
rwFlush(w) == [w EXCEPT !.under = underWrite(@)]

\* The writer of a request that has been through the calls so far.
Wrapped == [rw |-> mreq.rw, under |-> mreq.under]

\* The deferred function of the middleware: what it leaves of the writer
\* and of the collector when next.ServeHTTP has returned or panicked.
MiddlewareDeferred(m, panicked) ==
    LET w  == [rw |-> m.rw, under |-> m.under]
        w1 == IF panicked /\ ~m.rw.written
              THEN rwWriteHeader(w, StatusInternalServerError) ELSE w
        w2 == [w1 EXCEPT !.under = IF panicked THEN @ ELSE underWrite(@)]
    IN  [m EXCEPT !.pc = "done",
                  !.rw = w2.rw,
                  !.under = w2.under,
                  !.panicked = panicked,
                  !.propagated = FALSE,
                  !.errors = IF panicked THEN @ + 1 ELSE @,
                  !.observed = @ + 1,
                  !.total = [@ EXCEPT ![w2.rw.statusCode] = @ + 1]]

\* A request arrives: the writer is wrapped and next.ServeHTTP is called.
Middleware_Request ==
    /\ mreq.pc \in {"none", "done"}
    /\ (mreq.pc = "done" => mreq.n < MaxArrivals)
    /\ mreq' = [pc |-> "handling",
                rw |-> [statusCode |-> StatusOK, written |-> FALSE],
                under |-> [wroteHeader |-> FALSE, status |-> StatusOK],
                early |-> FALSE, calls |-> 0,
                panicked |-> FALSE, propagated |-> FALSE,
                n |-> IF mreq.pc = "none" THEN 1 ELSE mreq.n + 1,
                total |-> IF mreq.pc = "none" THEN [c \in Statuses |-> 0] ELSE mreq.total,
                observed |-> IF mreq.pc = "none" THEN 0 ELSE mreq.observed,
                errors |-> IF mreq.pc = "none" THEN 0 ELSE mreq.errors]
    /\ UNCHANGED <<appVars, sup, adding, req, load, cli, lsn, agg>>
    /\ UNCHANGED worldVars

Handler_WriteHeader ==
    /\ mreq.pc = "handling"
    /\ mreq.calls < MaxHandlerCalls
    /\ \E code \in Statuses :
          LET w == rwWriteHeader(Wrapped, code)
          IN  mreq' = [mreq EXCEPT !.rw = w.rw, !.under = w.under, !.calls = @ + 1]
    /\ UNCHANGED <<appVars, sup, adding, req, load, cli, lsn, agg>>
    /\ UNCHANGED worldVars

Handler_Write ==
    /\ mreq.pc = "handling"
    /\ mreq.calls < MaxHandlerCalls
    /\ LET w == rwWrite(Wrapped)
       IN  mreq' = [mreq EXCEPT !.rw = w.rw, !.under = w.under, !.calls = @ + 1]
    /\ UNCHANGED <<appVars, sup, adding, req, load, cli, lsn, agg>>
    /\ UNCHANGED worldVars

Handler_Flush ==
    /\ mreq.pc = "handling"
    /\ mreq.calls < MaxHandlerCalls
    /\ LET w == rwFlush(Wrapped)
       IN  mreq' = [mreq EXCEPT !.rw = w.rw, !.under = w.under, !.calls = @ + 1,
                                !.early = @ \/ ~mreq.under.wroteHeader]
    /\ UNCHANGED <<appVars, sup, adding, req, load, cli, lsn, agg>>
    /\ UNCHANGED worldVars

\* next.ServeHTTP returns.
Handler_Return ==
    /\ mreq.pc = "handling"
    /\ mreq' = MiddlewareDeferred(mreq, FALSE)
    /\ UNCHANGED <<appVars, sup, adding, req, load, cli, lsn, agg>>
    /\ UNCHANGED worldVars

\* next.ServeHTTP panics.
Handler_Panic ==
    /\ mreq.pc = "handling"
    /\ mreq' = MiddlewareDeferred(mreq, TRUE)
    /\ UNCHANGED <<appVars, sup, adding, req, load, cli, lsn, agg>>
    /\ UNCHANGED worldVars

InitMetrics ==
    /\ scope = {"api"}
    /\ InitApp
    /\ cfg = MkConfig(<<MkService("api", "b8080", "nil")>>)
    /\ quota = 0
    /\ faultsLeft = 0

NextMetrics ==
    \/ Middleware_Request
    \/ Handler_WriteHeader
    \/ Handler_Write
    \/ Handler_Flush
    \/ Handler_Return
    \/ Handler_Panic

SpecMetrics == InitMetrics /\ [][NextMetrics]_vars

(***************************************************************************)
(* SpecAggregate: one ReloadError and the Record calls made on it, in any  *)
(* order and for any service names.                                        *)
(*   agg.e       the ReloadError                                           *)
(*   agg.succ    the RecordSuccess calls made                              *)
(*   agg.fail    the RecordAddError, RecordRemoveError and                 *)
(*               RecordUpdateError calls made                              *)
(***************************************************************************)
MaxRecords == 4    \* Record calls made on one ReloadError

Aggregate_New ==
    /\ agg.pc = "none"
    /\ agg' = [pc |-> "made", e |-> NewReloadError, succ |-> 0, fail |-> 0]
    /\ UNCHANGED <<appVars, sup, adding, req, load, cli, lsn, mreq>>
    /\ UNCHANGED worldVars

Aggregate_RecordSuccess ==
    /\ agg.pc = "made"
    /\ agg.succ + agg.fail < MaxRecords
    /\ agg' = [agg EXCEPT !.e = RecordSuccess(@), !.succ = @ + 1]
    /\ UNCHANGED <<appVars, sup, adding, req, load, cli, lsn, mreq>>
    /\ UNCHANGED worldVars

Aggregate_RecordAddError ==
    /\ agg.pc = "made"
    /\ agg.succ + agg.fail < MaxRecords
    /\ \E name \in Names :
          agg' = [agg EXCEPT !.e = RecordAddError(@, name), !.fail = @ + 1]
    /\ UNCHANGED <<appVars, sup, adding, req, load, cli, lsn, mreq>>
    /\ UNCHANGED worldVars

Aggregate_RecordRemoveError ==
    /\ agg.pc = "made"
    /\ agg.succ + agg.fail < MaxRecords
    /\ \E name \in Names :
          agg' = [agg EXCEPT !.e = RecordRemoveError(@, name), !.fail = @ + 1]
    /\ UNCHANGED <<appVars, sup, adding, req, load, cli, lsn, mreq>>
    /\ UNCHANGED worldVars

Aggregate_RecordUpdateError ==
    /\ agg.pc = "made"
    /\ agg.succ + agg.fail < MaxRecords
    /\ \E name \in Names :
          agg' = [agg EXCEPT !.e = RecordUpdateError(@, name), !.fail = @ + 1]
    /\ UNCHANGED <<appVars, sup, adding, req, load, cli, lsn, mreq>>
    /\ UNCHANGED worldVars

InitAggregate ==
    /\ scope = {"api"}
    /\ InitApp
    /\ cfg = MkConfig(<<MkService("api", "b8080", "nil")>>)
    /\ quota = 0
    /\ faultsLeft = 0

NextAggregate ==
    \/ Aggregate_New
    \/ Aggregate_RecordSuccess
    \/ Aggregate_RecordAddError
    \/ Aggregate_RecordRemoveError
    \/ Aggregate_RecordUpdateError

SpecAggregate == InitAggregate /\ [][NextAggregate]_vars

(***************************************************************************)
(* Properties.                                                             *)
(***************************************************************************)
Reloading(p) == rl[p].pc \in {"apply", "update_add", "finish"}

RunningNames == {services[i].Config.Name : i \in 1..Len(services)}

LiveNodes(n) == {i \in NodeIds : nodes[i].name = n /\ nodes[i].state = "started"}

StepsFor(p, n) == {k \in 1..Len(rl[p].steps) : rl[p].steps[k].svc.Name = n}

KindsFor(p, n) == {rl[p].steps[k].kind : k \in StepsFor(p, n)}

\* C1: while a reload from the applied Config C1 to a valid Config C2 is in
\* progress, every service name has exactly one outcome in its plan: Remove
\* iff the name is in C1 only, Add iff it is in C2 only, Update iff it is in
\* both and ServiceConfigEqual is false, no action iff it is in both and
\* ServiceConfigEqual is true; no name receives two actions, and a name of
\* neither Config receives none.
C1_OneOutcomePerName ==
    \A p \in Procs :
        Reloading(p) =>
            \A n \in Names :
                LET old   == cfg
                    new   == rl[p].newCfg
                    inOld == InConfig(old, n)
                    inNew == InConfig(new, n)
                    kinds == KindsFor(p, n)
                IN  /\ Cardinality(StepsFor(p, n)) <= 1
                    /\ ("remove" \in kinds) <=> (inOld /\ ~inNew)
                    /\ ("add" \in kinds) <=> (inNew /\ ~inOld)
                    /\ ("update" \in kinds) <=>
                          (inOld /\ inNew
                             /\ ~ServiceConfigEqual(Lookup(old, n), Lookup(new, n)))
                    /\ (kinds = {}) <=>
                          \/ ~inOld /\ ~inNew
                          \/ inOld /\ inNew
                               /\ ServiceConfigEqual(Lookup(old, n), Lookup(new, n))
                    /\ \A k \in StepsFor(p, n) :
                          rl[p].steps[k].kind \in {"add", "update"}
                              => rl[p].steps[k].svc = Lookup(new, n)

\* A reload whose plan adds one service and leaves alone another whose two
\* specs differ only by a nil against an empty map.
C1_Witness ==
    /\ Reloading("watcher")
    /\ \E n, m \in Names :
          /\ KindsFor("watcher", n) = {"add"}
          /\ KindsFor("watcher", m) = {}
          /\ InConfig(cfg, m) /\ InConfig(rl["watcher"].newCfg, m)
          /\ Lookup(cfg, m) # Lookup(rl["watcher"].newCfg, m)

Rank(kind) ==
    CASE kind = "remove"     -> 1
      [] kind = "update_rm"  -> 2
      [] kind = "update_add" -> 2
      [] kind = "add"        -> 3

\* C2: within one reload the registry operations happen in the order
\* Removes, Updates, Adds: no operation of an earlier class follows one of a
\* later class, and the Add half of an Update directly follows the
\* successful Remove half of the same name.
C2_RemoveUpdateAddOrder ==
    /\ \A i, j \in 1..Len(log) :
          i < j => Rank(log[i].kind) <= Rank(log[j].kind)
    /\ \A j \in 1..Len(log) :
          log[j].kind = "update_add" =>
              /\ j > 1
              /\ log[j - 1].kind = "update_rm"
              /\ log[j - 1].name = log[j].name
              /\ log[j - 1].err = "nil"
    /\ \A i \in 1..Len(log) :
          (log[i].kind = "update_rm" /\ log[i].err = "nil" /\ i < Len(log)) =>
              log[i + 1].kind = "update_add" /\ log[i + 1].name = log[i].name

\* A reload that has completed an Update and then an Add.
C2_Witness ==
    \E i, j \in 1..Len(log) :
        /\ i < j
        /\ log[i].kind = "update_add"
        /\ log[j].kind = "add"

\* C3: at most one mesh node is started on the state directory of a service
\* name at any time.
C3_OneLiveNodePerStateDir ==
    \A n \in Names : Cardinality(LiveNodes(n)) <= 1

\* C4: reloads exclude one another (at most one goroutine is between taking the
\* mutex and its release, and it is the holder), the Configs waiting on the
\* stream are the ones emitted after the last one received, in emission
\* order, and the applied Config only changes by the holder of the mutex
\* installing the whole Config it was given.
C4_SerialReloads ==
    /\ [](/\ Cardinality({p \in Procs : Reloading(p)}) <= 1
          /\ \A p \in Procs : Reloading(p) => appMu = p
          /\ \A i \in 1..Len(stream) : stream[i].seq = taken + i)
    /\ [][/\ (worldVars' # worldVars /\ appState # "new") =>
                \E p \in Procs : appMu = p /\ appMu' = p /\ Reloading(p)
          /\ cfg' # cfg =>
                \E p \in Procs : /\ appMu = p
                                 /\ rl[p].pc = "finish"
                                 /\ cfg' = rl[p].newCfg
                                 /\ Validate(cfg', provider)]_vars

\* One goroutine applies its reload while the other waits for the mutex.
C4_Witness ==
    /\ rl["watcher"].pc = "apply"
    /\ rl["caller"].pc = "wait"
    /\ rl["watcher"].newCfg # rl["caller"].newCfg

FinishOf(p) == rl[p].pc = "finish" /\ rl'[p].pc = "idle"

StartStep == appState = "new" /\ appState' # "new"

\* Positions of the applied Config whose start the environment made fail.
FailedAtStart(outs) == {i \in 1..Len(outs) : outs[i] # "ok"}

\* C6: Start is fatal iff the Config has services and every one of them
\* failed to start; otherwise the supervisor runs, the services that started
\* are serving, the failed ones are absent from the registry, and a running
\* supervisor stays running.
C6_FatalIffAllFailed ==
    [][/\ StartStep =>
            LET total  == Len(cfg.Services)
                failed == FailedAtStart(startOuts')
            IN  /\ (appState' = "fatal") <=> (total > 0 /\ Cardinality(failed) = total)
                /\ (appState' = "fatal") => AllFailed(startupErr')
                /\ (appState' # "fatal") =>
                      /\ appState' = "running"
                      /\ \A i \in 1..total :
                            IF i \in failed
                            THEN cfg.Services[i].Name \notin RunningNames'
                            ELSE \E k \in 1..Len(services') :
                                    /\ services'[k].Config = cfg.Services[i]
                                    /\ services'[k].server = "serving"
       /\ appState = "running" => appState' = "running"]_vars

\* Start left one service running and one failed.
C6_Witness ==
    /\ appState = "running"
    /\ startupErr.kind = "startup"
    /\ startupErr.Failed = 1
    /\ startupErr.Successful = 1

HandlerFailedNow ==
    {n \in Names :
        \/ /\ StartStep
           /\ \E i \in 1..Len(startOuts') :
                 startOuts'[i] = "handlerfail" /\ cfg.Services[i].Name = n
        \/ /\ Len(log') = Len(log) + 1
           /\ log'[Len(log')].name = n
           /\ log'[Len(log')].err = "handler"}

\* C8: when the handler of a service cannot be constructed after its
\* listener was obtained, the listener is closed, the mesh node of the
\* service is torn down, and no registry entry is created.
C8_HandlerFailureTearsDown ==
    [][\A n \in HandlerFailedNow :
          /\ serviceServers'[n] = NoNode
          /\ \A i \in NodeIds :
                nodes'[i].name = n =>
                    nodes'[i].state # "started" /\ nodes'[i].listener # "open"
          /\ n \notin RunningNames']_vars

\* The step appended a failed registry operation to the log.
FailedOp(kinds) ==
    /\ Len(log') = Len(log) + 1
    /\ log'[Len(log')].kind \in kinds
    /\ log'[Len(log')].err # "nil"

RegistryView(svcs) == [i \in 1..Len(svcs) |-> svcs[i].Config]

C9_Witness ==
    /\ rl["watcher"].pc = "finish"
    /\ \E i \in 1..Len(log) :
          /\ log[i].kind = "update_add"
          /\ log[i].err # "nil"
          /\ log[i].name \in rl["watcher"].reloadErr.AddErrors

\* A Config that names one service twice.
HasDuplicateName(c) ==
    \E i, j \in 1..Len(c.Services) :
        i # j /\ c.Services[i].Name = c.Services[j].Name

\* C10: when the watch loop receives a Config that fails validation, no
\* reload starts and no Add, Remove or Update is performed: the applied
\* Config, the registry, the mesh nodes, the mutex and the log are
\* unchanged, and the rejection is the result of that reload.
C10_InvalidConfigIsRejected ==
    [][(/\ stream # <<>>
        /\ taken' # taken
        /\ HasDuplicateName(Head(stream).cfg)) =>
           /\ cfg' = cfg
           /\ UNCHANGED worldVars
           /\ rl' = rl
           /\ appMu' = appMu
           /\ log' = log
           /\ result'["watcher"] = "invalid"]_vars

\* The watch loop has rejected a Config while services were running.
C10_Witness ==
    /\ result["watcher"] = "invalid"
    /\ taken > 0
    /\ rl["watcher"].pc = "idle"
    /\ services # <<>>

\* C11: a node is instantiated with an auth key exactly when the state
\* directory of its name holds no state at the time of the Listen call; a
\* state directory that holds state keeps it, so every later Listen for the
\* name (the Add of an Update) starts its node without auth key on the same
\* directory.
C11_AuthKeyIffNoState ==
    [][/\ \A i \in NodeIds :
              (nodes[i].state = "free" /\ nodes'[i].state # "free")
                  => (nodes'[i].authKey <=> nodes'[i].name \notin stateDirs)
       /\ stateDirs \subseteq stateDirs']_vars

\* A reload has replaced a service: its new node runs without auth key on
\* the state directory the first node wrote.
C11_Witness ==
    /\ appState = "running"
    /\ taken > 0
    /\ \E i \in NodeIds :
          /\ nodes[i].state = "started"
          /\ nodes[i].listener = "open"
          /\ ~nodes[i].authKey
          /\ nodes[i].name \in stateDirs

\* C12: no request is served by the http.Server of a service while the
\* startService call that starts it is still running, and none by a service
\* whose startService returned an error.
C12_ServesOnlyAfterAddReturned ==
    /\ (adding.pc \in {"listen", "handler", "serve", "return"} => adding.requests = 0)
    /\ (adding.pc = "returned" /\ adding.err # "nil" => adding.requests = 0)


\* The reload has just run RemoveService (as a Remove, or as the first half
\* of an Update) and it returned err.
Removed(err) ==
    /\ Len(log') = Len(log) + 1
    /\ log'[Len(log')].kind \in {"remove", "update_rm"}
    /\ log'[Len(log')].err = err

ShutdownRan(step) ==
    /\ Len(sup'.log) = Len(sup.log) + 1
    /\ sup'.log[Len(sup'.log)] = step

\* C14: Registry.Shutdown shuts the HTTP server of every running service
\* down, whatever the others answer, returns the join of their errors, and
\* leaves the registry empty.
C14_RegistryShutdownEmptiesRegistry ==
    [][ShutdownRan("registry") =>
          /\ \A i \in 1..Len(services) :
                \E k \in 1..Len(services') :
                    /\ services'[k].Config = services[i].Config
                    /\ services'[k].server # "serving"
          /\ ("registry" \in sup'.errs) <=>
                (\E k \in 1..Len(services') : services'[k].server = "draining")
          /\ services' = <<>>]_vars

\* The order the supervisor's Shutdown gives its steps.
ShutdownOrder == <<"cancel", "metrics", "registry", "close">>

\* C15: Shutdown cancels the provider stream, shuts the metrics server
\* down, shuts the registry down and closes the node manager, in this
\* order; no service whose HTTP server may still run a handler has its mesh
\* node closed.
C15_NoHandlerOnClosedNode ==
    /\ Len(sup.log) <= Len(ShutdownOrder)
    /\ sup.log = SubSeq(ShutdownOrder, 1, Len(sup.log))
    /\ \A k \in 1..Len(services) :
          services[k].server \in {"serving", "draining"}
              => nodes[services[k].listener].state # "closed"

\* C16: a Start after a successful Start starts no node, listener, server
\* or watcher; a Shutdown after a Shutdown returns without error, runs no
\* step and closes nothing.
C16_StartAndShutdownIdempotent ==
    [][/\ (sup'.starts > sup.starts /\ sup.starts >= 1) =>
             /\ UNCHANGED worldVars
             /\ appState' = appState
             /\ sup'.watcher = sup.watcher
             /\ sup'.metrics = sup.metrics
       /\ (sup'.shutdowns > sup.shutdowns /\ sup.shutdowns >= 1) =>
             /\ sup'.ret = {}
             /\ UNCHANGED worldVars
             /\ sup'.log = sup.log
             /\ sup'.pc = sup.pc
             /\ sup'.watcher = sup.watcher
             /\ sup'.metrics = sup.metrics
       /\ Len(sup'.log) <= Len(ShutdownOrder)]_vars

\* Start and Shutdown have each been called twice on a supervisor that ran
\* a service; the first Shutdown returned an error.
C16_Witness ==
    /\ sup.starts = 2
    /\ sup.shutdowns = 2
    /\ sup.pc = "closed"
    /\ sup.errs # {}
    /\ services # <<>>

\* C17: once the supervisor's Shutdown has returned no goroutine is live:
\* the watcher has returned, no service's serve goroutine and no metrics
\* server goroutine accepts any more, and no certificate is being primed.
C17_NoGoroutineAfterShutdown ==
    sup.pc = "closed" =>
        /\ sup.watcher # "live"
        /\ \A k \in 1..Len(services) : services[k].server # "serving"
        /\ sup.metrics # "serving"
        /\ priming = {}

\* C18: a reload that returned an error does not stop the supervisor: it
\* keeps running, its watcher is live and receives the next Config of the
\* stream, and the reload of that Config takes the mutex, applies its
\* actions and ends.
C18_ReloadErrorDoesNotStopWatcher ==
    result["watcher"] = "reload" =>
        /\ appState = "running"
        /\ sup.watcher = "live"
        /\ rl["watcher"].pc \in {"idle", "wait", "apply", "update_add", "finish"}
        /\ (rl["watcher"].pc = "idle" /\ stream # <<>>) => ENABLED Receive
        /\ rl["watcher"].pc = "wait" => ENABLED Acquire("watcher")
        /\ rl["watcher"].pc = "finish" => ENABLED Finish("watcher")

\* After a reload that returned an error the watcher has received the next
\* Config, and its reload has applied an action and reached its end.
C18_Witness ==
    /\ result["watcher"] = "reload"
    /\ rl["watcher"].pc = "finish"
    /\ rl["watcher"].reloadErr.Successful > 0
    /\ taken >= 2

\* C19: a Config without services is valid for the docker provider and for
\* no other; Start over such a Config does not fail; a service that a later
\* Config of the stream adds is started and registered like any other.
C19_DockerStartsEmpty ==
    /\ [](/\ Validate(MkConfig(<<>>), provider) <=> provider = "docker"
          /\ (appState = "new" /\ cfg.Services = <<>>) => ENABLED Start
          /\ (appState # "new" /\ startupErr.kind = "internal") =>
                (provider = "docker" /\ appState = "running"))
    /\ [][(/\ startupErr.kind = "internal"
           /\ Len(log') = Len(log) + 1
           /\ log'[Len(log')].kind = "add"
           /\ log'[Len(log')].err = "nil")
          => (/\ Len(services') = Len(services) + 1
              /\ services'[Len(services')].Config.Name = log'[Len(log')].name
              /\ services'[Len(services')].server = "serving"
              /\ nodes'[services'[Len(services')].listener].listener = "open")]_vars

\* A supervisor of the docker provider that started without services runs a
\* service that a later Config added.
C19_Witness ==
    /\ provider = "docker"
    /\ appState = "running"
    /\ startupErr.kind = "internal"
    /\ rl["watcher"].pc = "idle"
    /\ cfg.Services # <<>>
    /\ services # <<>>
    /\ \A k \in 1..Len(services) : services[k].server = "serving"

\* C20: with identity injection enabled, a request whose lookup timed out
\* or returned an error goes upstream without any X-Tailscale-* header,
\* whatever headers it arrived with.
C20_FailedLookupForwardsNoIdentity ==
    (req.pc = "forwarded" /\ req.enabled /\ req.out \in {"error", "timeout"}) =>
        \A h \in TsHeaders : req.up[h] = Absent

\* The bytes 0x00..0x1F and 0x7F that a header value of the model can hold.
ControlBytes == {"NUL", "CR", "LF"}

\* C21: no identity header the middleware has set holds a control byte,
\* whatever the lookup answered.
C21_InjectedValuesHaveNoControlByte ==
    (req.pc = "forwarded" /\ req.out \in {"ok", "hit"}) =>
        \A h \in TsHeaders :
            \A i \in 1..Len(req.hdr[h]) :
                \A k \in 1..Len(req.hdr[h][i]) : req.hdr[h][i][k] \notin ControlBytes

\* The pipeline has resolved the secrets of the Config it was given.
Resolved == load.pc \in {"processed", "reprocessed"} /\ load.err # "secrets"

\* The secret has a direct value and another configured source: a file, a
\* named variable, or a default variable that is set.
HasOtherSource(s, env) ==
    s.value # "" /\ (s.fileVar # "" \/ s.envVar # "" \/ env.fallback # "")

\* C22: a secret with a direct value V and any other configured source
\* resolves to V, and after resolution its indirect fields are zeroed.
C22_DirectValueWins ==
    Resolved =>
        \A name \in SecretNames :
            LET before == SecretOf(load.raw.Tailscale, name)
                after  == SecretOf(load.cfg.Tailscale, name)
            IN  /\ HasOtherSource(before, load.env) => after.value = before.value
                /\ after.envVar = "" /\ after.fileVar = ""

\* The part of C22 that the code keeps: the indirect fields are zeroed, and a
\* direct value wins over the default variable.
C22_IndirectZeroed ==
    Resolved =>
        \A name \in SecretNames :
            LET before == SecretOf(load.raw.Tailscale, name)
                after  == SecretOf(load.cfg.Tailscale, name)
            IN  /\ (before.value # "" /\ before.fileVar = "" /\ before.envVar = "")
                      => after.value = before.value
                /\ after.envVar = "" /\ after.fileVar = ""

\* The pipeline has accepted the Config it was given.
Accepted == load.pc \in {"processed", "reprocessed"} /\ load.err = "nil"

AuthKeyOnly(ts) == ts.AuthKey # "" /\ ts.OAuthClientID = "" /\ ts.OAuthClientSecret = ""

\* The Config authenticates with a complete OAuth pair and nothing else.
OAuthPairOnly(ts) == ts.AuthKey = "" /\ ts.OAuthClientID # "" /\ ts.OAuthClientSecret # ""

\* The tags a service carries: its own when it was read with tags, the
\* default tags otherwise.
TagsOf(raw, i) ==
    IF raw.Services[i].Tags # "nil" THEN raw.Services[i].Tags ELSE raw.Tailscale.DefaultTags

\* C24: a Config that Validate has accepted has exactly one authentication
\* method, an auth key or a complete OAuth pair; under OAuth every service
\* carries at least one tag, its own or a default one.
C24_OneAuthMethodAndTagsUnderOAuth ==
    Accepted =>
        LET ts == load.cfg.Tailscale
        IN  /\ AuthKeyOnly(ts) \/ OAuthPairOnly(ts)
            /\ ~(AuthKeyOnly(ts) /\ OAuthPairOnly(ts))
            /\ OAuthPairOnly(ts) =>
                  \A i \in 1..Len(load.cfg.Services) :
                      /\ load.cfg.Services[i].Tags = "t"
                      /\ TagsOf(load.raw, i) = "t"

\* An accepted OAuth Config of two services, the first read with its own
\* tag, the second tagged by the default tags.
C24_Witness ==
    /\ Accepted
    /\ OAuthPairOnly(load.cfg.Tailscale)
    /\ Len(load.cfg.Services) = 2
    /\ load.raw.Services[1].Tags = "t"
    /\ load.raw.Services[2].Tags = "nil"
    /\ load.cfg.Services[2].Tags = "t"

\* C25: SetDefaults, then Normalize, then Validate, applied to a Config they
\* have already processed, change no field and give the same result.
C25_PipelineIdempotent ==
    load.pc = "reprocessed" => (load.cfg2 = load.cfg /\ load.err2 = load.err)

\* The pipeline has run twice on a Config whose first pass filled in
\* defaults for the global section and for two services, and accepted it.
C25_Witness ==
    /\ load.pc = "reprocessed"
    /\ load.err = "nil"
    /\ Len(load.raw.Services) = 2
    /\ ~load.raw.Global.WriteTimeout.IsSet
    /\ load.raw.Services[2].Tags = "nil"
    /\ load.cfg.Services[2].Tags = "t"
    /\ load.cfg.Services[2].WriteTimeout = SetDuration(DefaultWriteTimeout)

\* The pipeline has run twice on a Config it rejects.
C25_RejectedTwice == load.pc = "reprocessed" /\ load.err = "validate" /\ load.err2 = "validate"

\* The backend address of the service is a TCP address.
IsTCP(svc) == svc.BackendAddr # "" /\ ~IsUnix(svc.BackendAddr)

\* C26: validation rejects every TCP backend address whose port is 0 or
\* above 65535: every TCP backend of an accepted Config has a port in
\* 1..65535, for every service and every provider.
C26_AcceptedPortsInRange ==
    Accepted =>
        \A i \in 1..Len(load.cfg.Services) :
            IsTCP(load.cfg.Services[i]) =>
                PortOf(load.cfg.Services[i].BackendAddr) \in 1..65535

\* What the code keeps of C26: no accepted TCP backend has a port above
\* 65535, and none from the container-label provider has port 0.
C26_AcceptedPortsUpTo65535 ==
    Accepted =>
        \A i \in 1..Len(load.cfg.Services) :
            IsTCP(load.cfg.Services[i]) =>
                /\ PortOf(load.cfg.Services[i].BackendAddr) \in 0..65535
                /\ provider = "docker" => PortOf(load.cfg.Services[i].BackendAddr) # 0

\* Every Config whose only fault could be its backend address is accepted
\* when the TCP ports of its services are in 1..65535.
C26_PortsInRangeAccepted ==
    (load.pc = "processed" /\ load.err = "validate"
       /\ Validate([load.cfg EXCEPT !.Services =
                       [i \in 1..Len(load.cfg.Services) |->
                           [load.cfg.Services[i] EXCEPT !.BackendAddr = "b8080"]]],
                   provider))
        => \E i \in 1..Len(load.cfg.Services) :
               ~(IsTCP(load.cfg.Services[i])
                   /\ PortOf(load.cfg.Services[i].BackendAddr) \in 1..65535)

\* The exit code the specification gives to each way a run can end.
SpecifiedCode(why) ==
    CASE why = "nil" -> 0
      [] why \in {"flags", "config flag missing", "load", "validation"} -> 2
      [] OTHER -> 1

\* C27: the process exits with 0 on success and clean shutdown, 1 on a
\* runtime failure and 2 on a flag error or a validation failure; -validate
\* exits 0 or 2, and a file provider without -config exits 2.
C27_ExitCodes ==
    cli.pc = "exited" => cli.code = SpecifiedCode(cli.why)

\* What the code keeps of C27: 0 exactly when nothing failed, 2 exactly when
\* the flag package rejected the command line, 1 for every other failure.
C27_ExitCodesOfMain ==
    cli.pc = "exited" =>
        /\ cli.code = 0 <=> cli.why = "nil"
        /\ cli.code = 2 <=> cli.why = "flags"
        /\ cli.code \in {0, 1, 2}

\* A service of the name is in the registry and its Serve has returned an
\* error.
FailedIn(svcs, n) ==
    \E i \in 1..Len(svcs) : svcs[i].Config.Name = n /\ svcs[i].server = "failed"

ServingIn(svcs, n) ==
    \E i \in 1..Len(svcs) : svcs[i].Config.Name = n /\ svcs[i].server = "serving"

\* C28: a serve error stops neither the supervisor nor another service, and
\* the reload after it, when its Config still has the name and all its
\* actions succeed, leaves a running service of that name and no failed one.
C28_FailedServiceReplaced ==
    [][/\ (\E n \in Names : FailedIn(services', n) /\ ~FailedIn(services, n)) =>
             /\ appState' = appState
             /\ \A i \in 1..Len(services) :
                   services[i].server = "serving" /\ ~FailedIn(services', services[i].Config.Name)
                       => services'[i] = services[i]
       /\ \A p \in Procs :
             (FinishOf(p) /\ rl[p].reloadErr.Failed = 0) =>
                 \A n \in ConfigNames(rl[p].newCfg) :
                     FailedIn(services, n) =>
                         ServingIn(services', n) /\ ~FailedIn(services', n)]_vars

\* What the code keeps of C28: the serve error touches nothing but the
\* failed service; a reload whose plan has an action for the name replaces
\* the failed service, and a reload whose plan has none leaves it failed.
C28_ReplacedWhenPlanned ==
    [][/\ (\E n \in Names : FailedIn(services', n) /\ ~FailedIn(services, n)) =>
             /\ appState' = appState
             /\ \A i \in 1..Len(services) :
                   services[i].server = "serving" /\ ~FailedIn(services', services[i].Config.Name)
                       => services'[i] = services[i]
       /\ \A p \in Procs :
             (FinishOf(p) /\ rl[p].reloadErr.Failed = 0) =>
                 \A n \in ConfigNames(rl[p].newCfg) :
                     FailedIn(services, n) =>
                         IF KindsFor(p, n) = {}
                             THEN FailedIn(services', n)
                             ELSE ServingIn(services', n) /\ ~FailedIn(services', n)]_vars

\* C29: the registry never holds two running services of one name, whatever
\* sequence of StartServices, AddService, UpdateService, RemoveService and
\* Shutdown has run, a repeated StartServices included.
C29_OneRunningServicePerName ==
    \A i, j \in 1..Len(services) :
        (/\ services[i].Config.Name = services[j].Config.Name
         /\ services[i].server = "serving"
         /\ services[j].server = "serving") => i = j

\* No registry operation is in progress: Start has returned, the supervisor
\* runs, and no reload holds its mutex.
RegistryIdle == appState = "running" /\ appMu = "none"

\* C30: whenever no registry operation is in progress, a name has a
\* recorded mesh node exactly when the registry holds a running service of
\* that name, after failed starts, failed removes and partial reloads too.
C30_RegistryAndNodeManagerAgree ==
    RegistryIdle =>
        \A n \in Names : (serviceServers[n] # NoNode) <=> ServingIn(services, n)

\* What the code keeps of C30: the registry and the node manager agree as
\* long as no start and no remove has failed.
C30_AgreeWithoutFailures ==
    (RegistryIdle /\ faultsLeft = MaxFaults) =>
        \A n \in Names : (serviceServers[n] # NoNode) <=> ServingIn(services, n)

\* C31: when Listen returns an error, the name has no recorded node, and
\* no started node of that name is left running.
C31_FailedListenRecordsNoNode ==
    (lsn.pc = "Listen" /\ lsn.err # "nil") =>
        /\ GetServiceServer(World, lsn.name) = NoNode
        /\ LiveNodes(lsn.name) = {}

\* What the code keeps of C31: a Listen that fails before the node is
\* stored, at the auth key, leaves the entry of the name as it was.
C31_AuthFailureStoresNothing ==
    [][(lsn'.pc = "Listen" /\ lsn'.err = "config")
           => /\ serviceServers' = serviceServers
              /\ \A i \in NodeIds : nodes'[i].state = "started" => nodes'[i] = nodes[i]]_vars

\* C32: CloseService of a name without recorded node returns nil and
\* changes nothing; when the node closes, the name is removed from the
\* manager; when the node fails to close, an error is returned and the
\* node stays recorded under the name, so that the next CloseService or
\* Close calls Close on it again.
C32_CloseServiceKeepsWhatItCouldNotClose ==
    [][(lsn' # lsn /\ lsn'.pc = "CloseService")
           => LET n  == lsn'.name
                  id == serviceServers[n]
              IN  /\ lsn'.node = id
                  /\ id = NoNode => lsn'.err = "nil" /\ UNCHANGED worldVars
                  /\ (id # NoNode /\ lsn'.err = "nil")
                         => /\ serviceServers'[n] = NoNode
                            /\ nodes'[id].state # "started"
                            /\ \A m \in Names \ {n} : serviceServers'[m] = serviceServers[m]
                  /\ lsn'.err # "nil"
                         => /\ id # NoNode
                            /\ UNCHANGED worldVars
                            /\ CloseService(World, n, TRUE).w.nodes[id].state = "closed"
                            /\ CloseCalls(World)[id] = 1]_vars

\* A CloseService has failed and its node is still recorded.
C32_Witness ==
    /\ lsn.pc = "CloseService"
    /\ lsn.err = "resource"
    /\ lsn.node # NoNode
    /\ serviceServers[lsn.name] = lsn.node

\* The nodes the manager has on record.
Recorded == {serviceServers[n] : n \in {m \in Names : serviceServers[m] # NoNode}}

\* C33: Server.Close calls Close once on every recorded node and on no
\* other, whether or not some of the calls fail; it returns one error per
\* failed call; it leaves the manager without recorded node, so that a
\* second Close calls Close on nothing and returns no error.
C33_CloseClosesEveryNodeOnce ==
    [][(lsn' # lsn /\ lsn'.pc = "Close")
           => /\ \A i \in NodeIds : lsn'.calls[i] = IF i \in Recorded THEN 1 ELSE 0
              /\ lsn'.failed \subseteq Recorded
              /\ lsn'.errs = {n \in Names : serviceServers[n] \in lsn'.failed}
              /\ \A i \in Recorded \ lsn'.failed : nodes'[i].state # "started"
              /\ \A n \in Names : serviceServers'[n] = NoNode
              /\ \A oks \in [Names -> BOOLEAN] :
                    /\ ServerClose(World, oks)'.errs = {}
                    /\ ServerClose(World, oks)'.w = World'
              /\ \A i \in NodeIds : CloseCalls(World)'[i] = 0]_vars

\* A Close of two recorded nodes, one of which failed to close.
C33_Witness ==
    /\ lsn.pc = "Close"
    /\ Cardinality({i \in NodeIds : lsn.calls[i] = 1}) = 2
    /\ Cardinality(lsn.errs) = 1
    /\ \A n \in Names : serviceServers[n] = NoNode

\* What a Listen call that returned l may have returned, by its arguments.
ListenerAsSpecified(l) ==
    /\ (l.err = "nil" /\ l.funnelEnabled)
           => l.sel = FunnelListener /\ l.primes = 0
    /\ (l.err = "nil" /\ ~l.funnelEnabled /\ l.tlsMode = "auto")
           => l.sel = TLSListener /\ l.primes = 1
    /\ (l.err = "nil" /\ ~l.funnelEnabled /\ l.tlsMode = "off")
           => l.sel = PlainListener /\ l.primes = 0
    /\ (~l.funnelEnabled /\ l.tlsMode \notin {"auto", "off"}) => l.err # "nil"

C34_WatchLoopEndsAndShutdownReturns ==
    /\ [][sup.watcher = "done"
              => rl'["watcher"] = rl["watcher"] /\ taken' = taken /\ cfg' = cfg]_vars
    /\ [](taken <= emitted)
    /\ [](sup.pc = "closed" => sup.ret = {})
    /\ (sup.ctx = "cancelled" /\ sup.watcher = "live") ~> (sup.watcher = "done")
    /\ (sup.closed /\ sup.watcher = "live") ~> (sup.watcher = "done")
    /\ (sup.pc = "cancel") ~> (sup.pc = "closed")

\* Shutdown has returned without error while the context of Start is live,
\* and the loop has returned after it had reloaded a Config.
C34_Witness ==
    /\ sup.pc = "closed"
    /\ sup.ret = {}
    /\ sup.ctx = "live"
    /\ sup.watcher = "done"
    /\ taken > 0

\* How a request can pass the middleware.
LookupEnds == {"off", "hit", "ok", "nilresp", "error", "timeout"}

\* C35: for every request the handler has been through, however its lookup
\* ended, next.ServeHTTP was called once: the request went upstream.
C35_NextCalledOncePerRequest ==
    /\ req.pc = "forwarded" => req.nexts = 1 /\ req.out \in LookupEnds
    /\ req.pc = "arrived" =>
           \A out \in WhoIsOutcomes :
               WhoisHandler(req.enabled, req.cacheOn, req.cache, req.hdr, out).nexts = 1

\* A request whose lookup timed out has gone upstream.
C35_Witness ==
    /\ req.pc = "forwarded"
    /\ req.out = "timeout"
    /\ req.nexts = 1
    /\ req.lookups = 1

\* C36: the handler adds an entry for the remote address only when WhoIs
\* has answered with a response and without error, and the entry is that
\* response; a lookup that failed, timed out or answered nil leaves the
\* cache as it was; a request that finds its address in the cache gets the
\* headers of the cached response and makes no WhoIs call.
C36_CacheHoldsPositiveLookupsOnly ==
    [][(req.pc = "arrived" /\ req'.pc = "forwarded")
           => /\ req'.cache.has => ~req'.cache.resp.nil
              /\ req'.cache # req.cache
                     => /\ req'.out = "ok"
                        /\ req'.lookups = 1
                        /\ ~req.cache.has
                        /\ req'.cache.has
                        /\ req'.hdr = addAddressHeaders(addUserHeaders(req.hdr, req'.cache.resp),
                                                        req'.cache.resp)
              /\ req'.out \in {"error", "timeout", "nilresp"} => req'.cache = req.cache
              /\ (req.enabled /\ req.cacheOn /\ req.cache.has)
                     => /\ req'.out = "hit"
                        /\ req'.lookups = 0
                        /\ req'.cache = req.cache
                        /\ req'.hdr = addAddressHeaders(addUserHeaders(req.hdr, req.cache.resp),
                                                        req.cache.resp)]_vars

\* A request was answered from the cache, which an earlier request filled.
C36_Witness ==
    /\ req.pc = "forwarded"
    /\ req.out = "hit"
    /\ req.lookups = 0
    /\ req.cache.has
    /\ ~req.cache.resp.UserProfile.nil
    /\ req.hdr["X-Tailscale-User"] # Absent

\* The requests counted in requests_total, over all statuses.
RECURSIVE SumOver(_, _)
SumOver(f, S) ==
    IF S = {} THEN 0
    ELSE LET x == CHOOSE y \in S : TRUE IN f[x] + SumOver(f, S \ {x})

\* What the middleware has recorded when the handler of a request ends:
\* one request under status st, one observation, and one panic error if
\* the handler panicked, which does not leave the middleware.
RecordedOnce(st) ==
    /\ mreq'.total = [mreq.total EXCEPT ![st] = @ + 1]
    /\ SumOver(mreq'.total, Statuses) = mreq'.n
    /\ mreq'.observed = mreq.observed + 1
    /\ mreq'.observed = mreq'.n
    /\ mreq'.errors = mreq.errors + (IF mreq'.panicked THEN 1 ELSE 0)
    /\ ~mreq'.propagated

\* C38: every request is recorded once in requests_total and once in the
\* histogram, also when its handler panics; the panic stays inside the
\* middleware and counts once in errors_total; the recorded status is the
\* status sent to the client first: 500 when the handler panicked before
\* any status was sent, the status already sent otherwise.
C38_RequestRecordedOnceWithFirstStatus ==
    [][(mreq.pc = "handling" /\ mreq'.pc = "done")
           => /\ RecordedOnce(mreq'.under.status)
              /\ mreq'.under.wroteHeader
              /\ mreq'.under.status =
                     IF mreq.under.wroteHeader THEN mreq.under.status
                     ELSE IF mreq'.panicked THEN StatusInternalServerError
                     ELSE StatusOK]_vars

\* What the code keeps of C38: the counts, always; and the status, for a
\* handler that does not call Flush before a status is written.
C38_RecordedOnceAndFirstStatusWithoutEarlyFlush ==
    [][(mreq.pc = "handling" /\ mreq'.pc = "done")
           => /\ RecordedOnce(mreq'.rw.statusCode)
              /\ ~mreq.early =>
                     /\ mreq'.rw.statusCode = mreq'.under.status
                     /\ mreq'.under.status =
                            IF mreq.under.wroteHeader THEN mreq.under.status
                            ELSE IF mreq'.panicked THEN StatusInternalServerError
                            ELSE StatusOK]_vars

\* C39: after any sequence of Record calls on a ReloadError, Successful is
\* the number of RecordSuccess calls and Failed the number of
\* RecordAddError, RecordRemoveError and RecordUpdateError calls;
\* HasErrors holds exactly when Failed > 0, AllFailed exactly when
\* Failed > 0 and Successful = 0, and ToError is nil exactly when HasErrors
\* does not hold.
C39_ReloadErrorCountsItsCalls ==
    agg.pc = "made" =>
        /\ agg.e.Successful = agg.succ
        /\ agg.e.Failed = agg.fail
        /\ HasErrors(agg.e) <=> agg.e.Failed > 0
        /\ ReloadAllFailed(agg.e) <=> (agg.e.Failed > 0 /\ agg.e.Successful = 0)
        /\ ToError(agg.e) = "nil" <=> ~HasErrors(agg.e)

\* Two errors of one kind were recorded for the same name, and a success.
C39_Witness ==
    /\ agg.pc = "made"
    /\ agg.succ = 1
    /\ agg.fail = 3
    /\ agg.e.UpdateErrors = {"api"}
    /\ agg.e.AddErrors = {}
    /\ agg.e.RemoveErrors = {"web"}
    /\ HasErrors(agg.e)
    /\ ~ReloadAllFailed(agg.e)

====
